---- MODULE Spec2Model ----
(***************************************************************************)
(* Verification model of text-to-iq-estimator: the text preprocessor, the  *)
(* feature extractors, the knowledge-based combiner and the pipeline that  *)
(* sequences them.                                                         *)
(*                                                                         *)
(* Numbers.  Every real quantity of the program (a float) is held in fixed *)
(* point, in thousandths: 100.0 is 100000, a TTR of 0.659 is 659.  A       *)
(* product with a decimal constant is written with the constant's integer  *)
(* numerator and an integer division (0.4 * x is (4 * x) \div 10).  NaN is *)
(* a value of its own, with Python's rules: arithmetic on NaN gives NaN    *)
(* and every comparison with NaN is false.                                 *)
(*                                                                         *)
(* Dictionaries.  A Python dict is a function from its keys (strings); a   *)
(* key is present when it is in the DOMAIN.  The empty dict is EmptyDict.  *)
(*                                                                         *)
(* Text.  A string is a sequence of characters; a character is a           *)
(* one-symbol string.  Non-ASCII characters carry a name ("LDQUO").        *)
(***************************************************************************)
EXTENDS Integers, Sequences, FiniteSets, TLC

VARIABLES
    preprocessor,   \* the TextPreprocessor object (its configuration fields)
    mode,           \* the processing mode of the call ("prose" or "vocab")
    text,           \* the text argument of the call
    token_list,     \* the tokens argument of the call
    preprocessed,   \* what preprocess returned
    extractors,     \* the pipeline's feature_extractors and how each behaves
    features,       \* the feature dictionary (all_features)
    result,         \* what the call under study returned
    history,        \* the earlier calls on the same components and what they returned
    pc              \* position of the call: "start" or "done"

vars == <<preprocessor, mode, text, token_list, preprocessed, extractors, features, result,
          history, pc>>

-----------------------------------------------------------------------------
(* Floats *)

\* float('nan') as produced by np.nan
NaN == -2000000000

IsNaN(x) == x = NaN

FAdd(a, b) == IF IsNaN(a) \/ IsNaN(b) THEN NaN ELSE a + b
FSub(a, b) == IF IsNaN(a) \/ IsNaN(b) THEN NaN ELSE a - b
\* a * (n / d) for the decimal constant n/d
FScale(a, n, d) == IF IsNaN(a) THEN NaN ELSE (a * n) \div d

\* a < b and a > b on floats: false when either is NaN
FLt(a, b) == ~IsNaN(a) /\ ~IsNaN(b) /\ a < b
FGt(a, b) == ~IsNaN(a) /\ ~IsNaN(b) /\ a > b

\* Python's builtin min(a, b) / max(a, b): the first argument is kept unless
\* the second compares strictly below / above it
PyMin(a, b) == IF FLt(b, a) THEN b ELSE a
PyMax(a, b) == IF FGt(b, a) THEN b ELSE a

\* floor of the square root of n, found by bisection in lo..hi
RECURSIVE SqrtBetween(_, _, _)
SqrtBetween(n, lo, hi) ==
    IF lo >= hi THEN lo
    ELSE LET mid == (lo + hi + 1) \div 2
         IN  IF mid * mid <= n THEN SqrtBetween(n, mid, hi)
             ELSE SqrtBetween(n, lo, mid - 1)

\* |d| < DevCap for every deviation squared below, so the squares sum within
\* the integer range; a deviation of DevCap or more already puts the
\* standard deviation of four values at 10 or more
DevCap == 20000

Abs(x) == IF x < 0 THEN -x ELSE x

-----------------------------------------------------------------------------
(* Dictionaries *)

EmptyDict == [k \in {} |-> 0]

Has(d, k) == k \in DOMAIN d
Get(d, k, default) == IF k \in DOMAIN d THEN d[k] ELSE default
\* truthiness of a dict: non-empty
Truthy(d) == DOMAIN d # {}

-----------------------------------------------------------------------------
(* KnowledgeBasedIQEstimator (estimators/knowledge_based_iq.py) *)

\* feature_sets of _count_available_features
feature_sets == {"cwr", "stylometry", "aoa", "embeddings"}

\* weights that do not sum to 1
weightsNotNormalized ==
    [vocabulary_sophistication |-> 35,
     lexical_diversity |-> 25,
     sentence_complexity |-> 20,
     grammatical_precision |-> 25]

\* the weights of _combine_dimensions, in hundredths
weights ==
    [vocabulary_sophistication |-> 35,
     lexical_diversity |-> 25,
     sentence_complexity |-> 20,
     grammatical_precision |-> 20]

\* ClipDimension with the lower clip lost
ClipDimensionNoFloor(iq) == PyMin(130000, iq)

\* ClipDimension with the upper clip lost
ClipDimensionNoCeiling(iq) == PyMax(50000, iq)

\* the clip every stylometry dimension ends with: max(50, min(130, iq))
ClipDimension(iq) == PyMax(50000, PyMin(130000, iq))

\* DeflateCwr with the slope of the dampening reversed
DeflateCwrMirrored(cwr_raw) ==
    IF FGt(cwr_raw, 140000)
    THEN FSub(100000, FScale(FSub(cwr_raw, 100000), 4, 10))
    ELSE cwr_raw

\* the CWR score entering the vocabulary dimension: dampened above 140
DeflateCwr(cwr_raw) ==
    IF FGt(cwr_raw, 140000)
    THEN FAdd(100000, FScale(FSub(cwr_raw, 100000), 4, 10))
    ELSE cwr_raw

\* the AoA score entering the vocabulary dimension
AoaBaseIq(mean_aoa, pct_advanced) ==
    FAdd(FAdd(70000, FScale(FSub(mean_aoa, 3910), 24, 1)), pct_advanced)

\* scores, the list _vocabulary_iq collects
VocabularyScores(f) ==
    LET fromCwr ==
            IF Has(f, "cwr") /\ Has(f["cwr"], "cwr_baseline")
            THEN <<DeflateCwr(Get(f["cwr"]["cwr_baseline"], "iq_estimate", 100000))>>
            ELSE <<>>
        fromAoa ==
            IF Has(f, "aoa") /\ Has(f["aoa"], "aoa_features")
            THEN LET aoa_features == f["aoa"]["aoa_features"]
                     mean_aoa == Get(aoa_features, "mean_aoa_test", 8000)
                     pct_advanced == Get(aoa_features, "pct_advanced_test", 0)
                 IN  <<AoaBaseIq(mean_aoa, pct_advanced)>>
            ELSE <<>>
    IN  fromCwr \o fromAoa

CombineScores(scores) ==
    IF Len(scores) = 0 THEN 100000
    ELSE IF Len(scores) = 2
         THEN FAdd(FScale(scores[1], 5, 10), FScale(scores[2], 5, 10))
         ELSE scores[1]

_vocabulary_iq(f) == CombineScores(VocabularyScores(f))

\* features['stylometry'].get('stylometry_features', {}), when the bundle is there
StyloOf(f) == Get(f["stylometry"], "stylometry_features", EmptyDict)

_diversity_iq(f) ==
    IF ~Has(f, "stylometry") THEN 100000
    ELSE IF ~Truthy(StyloOf(f)) THEN 100000
    ELSE LET ttr == Get(StyloOf(f), "ttr", 500)
         IN  ClipDimension(FAdd(70000, FScale(FSub(ttr, 659), 170, 1)))

_sentence_complexity_iq(f) ==
    IF ~Has(f, "stylometry") THEN 100000
    ELSE IF ~Truthy(StyloOf(f)) THEN 100000
    ELSE LET avg_words == Get(StyloOf(f), "avg_words_per_sentence", 10000)
         IN  ClipDimension(FAdd(60000, FScale(FSub(avg_words, 11000), 6, 1)))

_grammar_iq(f) ==
    IF ~Has(f, "stylometry") THEN 100000
    ELSE IF ~Truthy(StyloOf(f)) THEN 100000
    ELSE LET dep_depth == Get(StyloOf(f), "avg_dependency_depth", 3000)
         IN  ClipDimension(FAdd(53000, FScale(FSub(dep_depth, 1795), 80, 1)))

_compute_dimensions(f) ==
    [vocabulary_sophistication |-> _vocabulary_iq(f),
     lexical_diversity |-> _diversity_iq(f),
     sentence_complexity |-> _sentence_complexity_iq(f),
     grammatical_precision |-> _grammar_iq(f)]

\* sum over the keys of a dict of g(key), floats
RECURSIVE FSum(_, _)
FSum(keys, g) ==
    IF keys = {} THEN 0
    ELSE LET k == CHOOSE x \in keys : TRUE
         IN  FAdd(g[k], FSum(keys \ {k}, g))

\* ClipFinal with the upper clip lost
ClipFinalNoCeiling(final_iq) == PyMax(50000, final_iq)

\* the final clip of _combine_dimensions: max(50, min(150, final_iq))
ClipFinal(final_iq) == PyMax(50000, PyMin(150000, final_iq))

_combine_dimensions(dimensions) ==
    LET keys == DOMAIN dimensions
        weighted_sum ==
            FSum(keys, [k \in keys |-> FScale(dimensions[k], Get(weights, k, 0), 1)])
        total_weight == FSum(keys, [k \in keys |-> Get(weights, k, 0)])
    IN  IF total_weight = 0 THEN 100000
        ELSE ClipFinal(FScale(weighted_sum, 1, total_weight))

\* _count_available_features that passes over a bundle holding an error
CountWithoutErrors(f) ==
    Cardinality({fs \in feature_sets : Has(f, fs) /\ Truthy(f[fs]) /\ ~Has(f[fs], "error")})

_count_available_features(f) ==
    Cardinality({fs \in feature_sets : Has(f, fs) /\ Truthy(f[fs])})

\* math.sqrt(variance) of the dimension scores (population standard deviation)
StdDev(dimensions) ==
    LET keys == DOMAIN dimensions
        n == Cardinality(keys)
        total == FSum(keys, dimensions)
        mean == FScale(total, 1, n)
        dev == [k \in keys |-> FSub(dimensions[k], mean)]
    IN  IF IsNaN(mean) THEN NaN
        ELSE IF \E k \in keys : Abs(dev[k]) >= DevCap THEN DevCap \div 2
        ELSE SqrtBetween(FSum(keys, [k \in keys |-> dev[k] * dev[k]]) \div n, 0, DevCap)

\* max(50, 100 - std_dev * 5), or 50 with fewer than two scores
AgreementScore(dimensions) ==
    IF Cardinality(DOMAIN dimensions) > 1
    THEN PyMax(50000, FSub(100000, FScale(StdDev(dimensions), 5, 1)))
    ELSE 50000

AvailabilityScore(f) == 50000 + _count_available_features(f) * 11000

\* ClipConfidence with the upper clip lost
ClipConfidenceNoCeiling(confidence) == PyMax(30000, confidence)

\* the final clip of _compute_confidence: max(30, min(95, confidence))
ClipConfidence(confidence) == PyMax(30000, PyMin(95000, confidence))

_compute_confidence(dimensions, f) ==
    ClipConfidence(
        FAdd(FScale(AgreementScore(dimensions), 7, 10),
             FScale(AvailabilityScore(f), 3, 10)))

\* KnowledgeBasedIQEstimator.estimate
KBEstimateResult(f) ==
    LET dimensions == _compute_dimensions(f)
    IN  [iq_estimate |-> _combine_dimensions(dimensions),
         confidence |-> _compute_confidence(dimensions, f),
         dimension_scores |-> dimensions,
         method |-> "knowledge_based",
         num_features_used |-> _count_available_features(f)]


-----------------------------------------------------------------------------
(* Feature inputs of the combiners *)

\* an optional entry: <<>> when absent, <<v>> when present with value v
Absent == <<>>
Opt(S) == {Absent} \cup {<<v>> : v \in S}

\* the dict holding exactly the present entries of choice
DictOf(choice) ==
    [k \in {x \in DOMAIN choice : choice[x] # Absent} |-> choice[k][1]]

\* what the pipeline stores for an extractor that raised
ErrorEntry == [error |-> "extraction failed"]

\* iq_estimate values of a cwr_baseline: 100 + 15 z is not clipped
CwrIqValues == {-50000, 55000, 100000, 140000, 150000, 355000}

CwrBundles ==
    {EmptyDict, ErrorEntry, [cwr_baseline |-> EmptyDict, feature_name |-> "cwr"]}
    \cup {[cwr_baseline |-> [iq_estimate |-> v], feature_name |-> "cwr"] : v \in CwrIqValues}

\* AoAFeatureExtractor.extract_features without a table
AoaNotLoaded ==
    [aoa_features |-> EmptyDict, error |-> "AoA data not loaded", feature_name |-> "aoa"]

\* AoAFeatureExtractor.extract_features when no token matched the table
AoaNoMatch ==
    [aoa_features |-> [mean_aoa_test |-> NaN, pct_advanced_test |-> 0, num_matched |-> 0],
     feature_name |-> "aoa"]

\* (mean_aoa_test, pct_advanced_test) of a computed bundle
AoaValues == {<<2000, 0>>, <<3910, 0>>, <<8000, 25000>>, <<12000, 100000>>}

AoaBundles ==
    {EmptyDict, ErrorEntry, AoaNotLoaded, AoaNoMatch}
    \cup {[aoa_features |->
              [mean_aoa_test |-> v[1], pct_advanced_test |-> v[2], num_matched |-> 1],
           feature_name |-> "aoa"] : v \in AoaValues}

TtrValues == {0, 659, 1000, NaN}
AvgWordsValues == {0, 16000, 30000}
DepDepthValues == {0, 2500, 5000}

\* stylometry_features dicts: yules_k is always computed here, and each of
\* the three keys the combiner reads is present or not
StyloDicts ==
    {DictOf([ttr |-> t, avg_words_per_sentence |-> w,
             avg_dependency_depth |-> d, yules_k |-> <<0>>]) :
        t \in Opt(TtrValues), w \in Opt(AvgWordsValues), d \in Opt(DepDepthValues)}

StyloBundles ==
    {EmptyDict, ErrorEntry, [stylometry_features |-> EmptyDict, feature_name |-> "stylometry"]}
    \cup {[stylometry_features |-> sd, feature_name |-> "stylometry"] : sd \in StyloDicts}

EmbeddingBundles == {ErrorEntry, [feature_name |-> "embeddings"]}

FeatureInputs ==
    {DictOf([cwr |-> c, aoa |-> a, stylometry |-> s, embeddings |-> e]) :
        c \in Opt(CwrBundles), a \in Opt(AoaBundles),
        s \in Opt(StyloBundles), e \in Opt(EmbeddingBundles)}

-----------------------------------------------------------------------------
(* States of the components that take no part in a specification *)

NoResult == [none |-> TRUE]
NoPreprocessor == [none |-> TRUE]
NoExtractors == [none |-> TRUE]
NoText == <<>>
NoTokens == <<>>
NoHistory == <<>>

-----------------------------------------------------------------------------
(* Specification SpecKB: KnowledgeBasedIQEstimator.estimate on any features *)

InitKB ==
    /\ features \in FeatureInputs
    /\ preprocessor = NoPreprocessor
    /\ mode = "prose"
    /\ text = NoText
    /\ token_list = NoTokens
    /\ history = NoHistory
    /\ preprocessed = NoResult
    /\ extractors = NoExtractors
    /\ result = NoResult
    /\ pc = "start"

\* KnowledgeBasedIQEstimator.estimate(features)
KBEstimate ==
    /\ pc = "start"
    /\ result' = KBEstimateResult(features)
    /\ pc' = "done"
    /\ UNCHANGED <<preprocessor, mode, text, token_list, preprocessed, extractors, features, history>>

NextKB == KBEstimate

SpecKB == InitKB /\ [][NextKB]_vars


-----------------------------------------------------------------------------
(* Characters and strings *)

LowerLetters ==
    <<"a", "b", "c", "d", "e", "f", "g", "h", "i", "j", "k", "l", "m",
      "n", "o", "p", "q", "r", "s", "t", "u", "v", "w", "x", "y", "z">>
UpperLetters ==
    <<"A", "B", "C", "D", "E", "F", "G", "H", "I", "J", "K", "L", "M",
      "N", "O", "P", "Q", "R", "S", "T", "U", "V", "W", "X", "Y", "Z">>
Digits == {"0", "1", "2", "3", "4", "5", "6", "7", "8", "9"}

Range(seq) == {seq[i] : i \in DOMAIN seq}
Letters == Range(LowerLetters) \cup Range(UpperLetters)

\* what \s matches and str.split() and str.strip() cut at
Whitespace == {" ", "\n", "\t"}

\* str.lower(), one character and a whole string
LowerChar(c) ==
    IF c \in Range(UpperLetters)
    THEN LowerLetters[CHOOSE i \in DOMAIN UpperLetters : UpperLetters[i] = c]
    ELSE c
Lower(str) == [i \in DOMAIN str |-> LowerChar(str[i])]

\* str.upper() and str.capitalize()
UpperChar(c) ==
    IF c \in Range(LowerLetters)
    THEN UpperLetters[CHOOSE i \in DOMAIN LowerLetters : LowerLetters[i] = c]
    ELSE c
Upper(str) == [i \in DOMAIN str |-> UpperChar(str[i])]
Capitalize(str) ==
    [i \in DOMAIN str |-> IF i = 1 THEN UpperChar(str[i]) ELSE LowerChar(str[i])]

\* str[i:] starts with prefix p (i counts from 1)
StartsWithAt(str, i, p) ==
    /\ i + Len(p) - 1 <= Len(str)
    /\ \A k \in 1..Len(p) : str[i + k - 1] = p[k]

\* str.startswith(p)
StartsWith(str, p) == StartsWithAt(str, 1, p)

\* str.endswith(p)
EndsWith(str, p) == Len(p) <= Len(str) /\ StartsWithAt(str, Len(str) - Len(p) + 1, p)

\* str.split(): the maximal runs of non-whitespace characters, in order
RECURSIVE SplitFrom(_, _, _)
SplitFrom(str, i, word) ==
    IF i > Len(str) THEN (IF word = <<>> THEN <<>> ELSE <<word>>)
    ELSE IF str[i] \in Whitespace
         THEN (IF word = <<>> THEN <<>> ELSE <<word>>) \o SplitFrom(str, i + 1, <<>>)
         ELSE SplitFrom(str, i + 1, Append(word, str[i]))
Split(str) == SplitFrom(str, 1, <<>>)

\* len(set(str))
DistinctChars(str) == Cardinality(Range(str))

-----------------------------------------------------------------------------
(* TextPreprocessor (preprocessing.py) *)

\* the seven replacements of _normalize_unicode; the characters beyond ASCII
\* carry their names
replacements(c) ==
    CASE c = "LDQUO" -> <<"\"">>
      [] c = "RDQUO" -> <<"\"">>
      [] c = "LSQUO" -> <<"'">>
      [] c = "RSQUO" -> <<"'">>
      [] c = "NDASH" -> <<"-">>
      [] c = "MDASH" -> <<"-", "-">>
      [] c = "HELLIP" -> <<".", ".", ".">>
      [] OTHER -> <<c>>

RECURSIVE NormalizeFrom(_, _)
NormalizeFrom(str, i) ==
    IF i > Len(str) THEN <<>> ELSE replacements(str[i]) \o NormalizeFrom(str, i + 1)
_normalize_unicode(str) == NormalizeFrom(str, 1)

\* the character class of url_pattern:
\* [a-zA-Z] | [0-9] | [$-_@.&+] | [!*\(\),] | %XX, where $-_ is the ASCII
\* range 0x24..0x5F and so already holds %, the digits and A-Z
UrlRange ==
    {"$", "%", "&", "'", "(", ")", "*", "+", ",", "-", ".", "/", ":", ";",
     "<", "=", ">", "?", "@", "[", "\\", "]", "^", "_"}
IsUrlChar(c) == c \in Letters \cup Digits \cup UrlRange \cup {"!"}

\* the last position of the maximal run of characters satisfying the class
\* that starts at i (i - 1 when str[i] is not in the class)
RECURSIVE UrlRunEnd(_, _)
UrlRunEnd(str, i) ==
    IF i <= Len(str) /\ IsUrlChar(str[i]) THEN UrlRunEnd(str, i + 1) ELSE i - 1

\* where a match of url_pattern that starts at i ends; 0 when none starts there
UrlMatchEnd(str, i) ==
    LET body ==
            IF StartsWithAt(str, i, <<"h", "t", "t", "p", "s", ":", "/", "/">>) THEN i + 8
            ELSE IF StartsWithAt(str, i, <<"h", "t", "t", "p", ":", "/", "/">>) THEN i + 7
            ELSE 0
    IN  IF body = 0 THEN 0
        ELSE IF UrlRunEnd(str, body) >= body THEN UrlRunEnd(str, body) ELSE 0

\* url_pattern.sub(' ', text)
RECURSIVE StripUrlsFrom(_, _)
StripUrlsFrom(str, i) ==
    IF i > Len(str) THEN <<>>
    ELSE IF UrlMatchEnd(str, i) > 0
         THEN <<" ">> \o StripUrlsFrom(str, UrlMatchEnd(str, i) + 1)
         ELSE <<str[i]>> \o StripUrlsFrom(str, i + 1)
_strip_urls(str) == StripUrlsFrom(str, 1)

\* the backquote character, written by name
Backquote == "GRAVE"

Fence == <<Backquote, Backquote, Backquote>>

\* where a match of code_pattern (a fenced span, three backquotes up to the
\* next three, else an inline span, one backquote up to the next one) that
\* starts at i ends; 0 when none starts there
CodeMatchEnd(str, i) ==
    LET closers == {j \in (i + 3)..Len(str) : StartsWithAt(str, j, Fence)}
        ticks == {k \in (i + 1)..Len(str) : str[k] = Backquote}
        Least(S) == CHOOSE x \in S : \A y \in S : x <= y
    IN  IF StartsWithAt(str, i, Fence) /\ closers # {} THEN Least(closers) + 2
        ELSE IF str[i] = Backquote /\ ticks # {} THEN Least(ticks)
        ELSE 0

\* code_pattern.sub(' ', text)
RECURSIVE StripCodeFrom(_, _)
StripCodeFrom(str, i) ==
    IF i > Len(str) THEN <<>>
    ELSE IF CodeMatchEnd(str, i) > 0
         THEN <<" ">> \o StripCodeFrom(str, CodeMatchEnd(str, i) + 1)
         ELSE <<str[i]>> \o StripCodeFrom(str, i + 1)
_strip_code(str) == StripCodeFrom(str, 1)

\* the characters of quote_pattern: the two adjacent literals of the source
\* join into one class of the ASCII double quote and the four curly quotes,
\* which leaves out the ASCII apostrophe
QuoteChars == {"\"", "LDQUO", "RDQUO", "LSQUO", "RSQUO"}

\* quote_pattern.sub(' ', text)
_strip_quotes(str) == [i \in DOMAIN str |-> IF str[i] \in QuoteChars THEN " " ELSE str[i]]

\* ' '.join(words)
RECURSIVE Join(_)
Join(words) ==
    IF words = <<>> THEN <<>>
    ELSE IF Len(words) = 1 THEN words[1]
    ELSE words[1] \o <<" ">> \o Join(Tail(words))

\* re.sub(r'\s+', ' ', text).strip(): every run of whitespace becomes one
\* space and the ends are cut
RECURSIVE CollapseFrom(_, _, _)
CollapseFrom(str, i, pending) ==
    IF i > Len(str) THEN <<>>
    ELSE IF str[i] \in Whitespace THEN CollapseFrom(str, i + 1, TRUE)
    ELSE (IF pending THEN <<" ", str[i]>> ELSE <<str[i]>>) \o CollapseFrom(str, i + 1, FALSE)

RECURSIVE FirstNonSpace(_, _)
FirstNonSpace(str, i) ==
    IF i > Len(str) \/ str[i] \notin Whitespace THEN i ELSE FirstNonSpace(str, i + 1)

CleanWhitespace(str) == CollapseFrom(str, FirstNonSpace(str, 1), FALSE)


\* common_english of detect_language
common_english ==
    {<<"t", "h", "e">>,
     <<"b", "e">>,
     <<"t", "o">>,
     <<"o", "f">>,
     <<"a", "n", "d">>,
     <<"a">>,
     <<"i", "n">>,
     <<"t", "h", "a", "t">>,
     <<"h", "a", "v", "e">>,
     <<"i">>,
     <<"i", "t">>,
     <<"f", "o", "r">>,
     <<"n", "o", "t">>,
     <<"o", "n">>,
     <<"w", "i", "t", "h">>,
     <<"h", "e">>}

\* words[:100]
Head100(words) == SubSeq(words, 1, IF Len(words) < 100 THEN Len(words) ELSE 100)

\* TextPreprocessor.detect_language
detect_language(str) ==
    LET words == Head100(Split(Lower(str)))
        english_count == Cardinality({i \in DOMAIN words : words[i] \in common_english})
    IN  IF english_count > 10 THEN "en" ELSE "unknown"

\* the reasons preprocess gives, each an f-string kept as its parts; "" is <<>>
ReasonEmpty == <<"Empty or invalid input">>
ReasonTooShort(num_tokens, min_length) ==
    <<"Text too short: ", num_tokens, " tokens (minimum: ", min_length, ")">>
\* {repeat_ratio:.2%}: the ratio in hundredths of a percent, to the nearest
ReasonRepetition(repeats, num_tokens) ==
    <<"High repetition detected: ", (repeats * 20000 + num_tokens) \div (2 * num_tokens), "%">>

\* len(set(word.lower())) <= 2 and len(word) > 2
IsRepetitive(word) == DistinctChars(Lower(word)) <= 2 /\ Len(word) > 2

\* the number of tokens the repetition check counts
RepeatCount(tokens) == Cardinality({i \in DOMAIN tokens : IsRepetitive(tokens[i])})

\* repeat_ratio > 0.3, for repeat_ratio = repeats / num_tokens, with 0.3 kept off
\* the boundary
RatioAboveStrict(repeats, num_tokens) == repeats * 10 >= 3 * num_tokens

\* repeat_ratio > 0.3, for repeat_ratio = repeats / num_tokens
RatioAbove(repeats, num_tokens) == repeats * 10 > 3 * num_tokens

\* LengthCheck with the comparison off by one
LengthCheckOffByOne(num_tokens, min_length) ==
    IF num_tokens + 1 < min_length
    THEN [is_valid |-> FALSE, reason |-> ReasonTooShort(num_tokens, min_length)]
    ELSE [is_valid |-> TRUE, reason |-> <<>>]

\* is_valid and reason after the length check
LengthCheck(num_tokens, min_length) ==
    IF num_tokens < min_length
    THEN [is_valid |-> FALSE, reason |-> ReasonTooShort(num_tokens, min_length)]
    ELSE [is_valid |-> TRUE, reason |-> <<>>]

\* is_valid and reason after the repetition check, which runs on every
\* non-empty token list and overwrites what the length check left
RepetitionCheck(qc, tokens) ==
    IF Len(tokens) > 0 /\ RatioAbove(RepeatCount(tokens), Len(tokens))
    THEN [is_valid |-> FALSE, reason |-> ReasonRepetition(RepeatCount(tokens), Len(tokens))]
    ELSE qc

\* Filtered with the URLs stripped before the Unicode normalization
FilteredUrlsFirst(self, str) ==
    LET noUrls == IF self.strip_urls THEN _strip_urls(str) ELSE str
        normalized == IF self.normalize_unicode THEN _normalize_unicode(noUrls) ELSE noUrls
        noCode == IF self.strip_code THEN _strip_code(normalized) ELSE normalized
        noQuotes == IF self.strip_quotes THEN _strip_quotes(noCode) ELSE noCode
    IN  CleanWhitespace(noQuotes)

\* the text after normalization, the stripping filters and the whitespace
\* clean-up, in the order of preprocess
Filtered(self, str) ==
    LET normalized == IF self.normalize_unicode THEN _normalize_unicode(str) ELSE str
        noUrls == IF self.strip_urls THEN _strip_urls(normalized) ELSE normalized
        noCode == IF self.strip_code THEN _strip_code(noUrls) ELSE noUrls
        noQuotes == IF self.strip_quotes THEN _strip_quotes(noCode) ELSE noCode
    IN  CleanWhitespace(noQuotes)

\* TextPreprocessor.preprocess(text, mode)
preprocess(self, str, md) ==
    IF str = <<>>
    THEN [processed_text |-> <<>>,
          is_valid |-> FALSE,
          reason |-> ReasonEmpty,
          metadata |-> EmptyDict]
    ELSE LET cleaned == Filtered(self, str)
             tokens == Split(cleaned)
             num_tokens == Len(tokens)
             min_length ==
                 IF md = "vocab" THEN self.min_length_vocab ELSE self.min_length_tokens
             qc == RepetitionCheck(LengthCheck(num_tokens, min_length), tokens)
             detected_lang == detect_language(cleaned)
             lang_match ==
                 \/ detected_lang = self.language
                 \/ (detected_lang = "unknown" /\ self.language = "en")
         IN  [processed_text |-> IF qc.is_valid THEN cleaned ELSE <<>>,
              original_text |-> str,
              is_valid |-> qc.is_valid,
              reason |-> qc.reason,
              metadata |->
                  [original_length |-> Len(str),
                   processed_length |-> Len(cleaned),
                   num_tokens |-> num_tokens,
                   language_detected |-> detected_lang,
                   language_match |-> lang_match,
                   strips_applied |->
                       [urls |-> self.strip_urls,
                        code |-> self.strip_code,
                        quotes |-> self.strip_quotes]]]

-----------------------------------------------------------------------------
(* Texts and preprocessors *)

\* most tokens of a word-list text
MaxTokens == 11
\* most fragments of a fragment text
MaxFrags == 3

\* TextPreprocessor(min_length_tokens, min_length_vocab), the other options
\* as given
MakePreprocessor(mlt, mlv, urls, code, quotes, unicode, lang) ==
    [min_length_tokens |-> mlt,
     min_length_vocab |-> mlv,
     strip_urls |-> urls,
     strip_code |-> code,
     strip_quotes |-> quotes,
     normalize_unicode |-> unicode,
     language |-> lang]

\* TextPreprocessor(): every option at its default
DefaultPreprocessor == MakePreprocessor(200, 15, TRUE, TRUE, TRUE, TRUE, "en")

\* the fixture of tests/test_preprocessing.py: TextPreprocessor(min_length_tokens=10)
TestPreprocessor == MakePreprocessor(10, 15, TRUE, TRUE, TRUE, TRUE, "en")

\* test_basic_preprocessing: "This is a test sentence with multiple words."
TestSentence ==
    <<"T", "h", "i", "s", " ", "i", "s", " ", "a", " ", "t", "e", "s", "t",
      " ", "s", "e", "n", "t", "e", "n", "c", "e", " ", "w", "i", "t", "h",
      " ", "m", "u", "l", "t", "i", "p", "l", "e", " ", "w", "o", "r", "d",
      "s", ".">>

\* test_min_length_check: "Short."
TestShort == <<"S", "h", "o", "r", "t", ".">>

\* the words of the word-list texts: two that the repetition check counts
\* (one only after lowercasing) and two that it does not
WordAaa == <<"a", "a", "a">>
WordAbA == <<"A", "b", "A">>
WordThe == <<"t", "h", "e">>
WordWords == <<"W", "o", "r", "d", "s", ".">>

Repeat(word, n) == [i \in 1..n |-> word]

\* the text of r1 + r2 repetitive and n1 + n2 other tokens, single-spaced
WordText(r1, n1, r2, n2) ==
    Join(Repeat(WordAaa, r1) \o Repeat(WordThe, n1)
         \o Repeat(WordAbA, r2) \o Repeat(WordWords, n2))

\* how many tokens of each of the four words, MaxTokens at most in all
WordCounts ==
    {c \in (0..MaxTokens) \X (0..MaxTokens) \X (0..MaxTokens) \X (0..MaxTokens) :
        c[1] + c[2] + c[3] + c[4] <= MaxTokens}

WordTexts ==
    {WordText(c[1], c[2], c[3], c[4]) : c \in WordCounts} \cup {TestSentence, TestShort}

\* the pieces of the fragment texts: URL schemes, a URL character, the
\* separators the filters put or cut, and characters the filters rewrite
Frags ==
    {<<"h", "t", "t", "p", ":", "/", "/">>,
     <<"h", "t", "t", "p", "s", ":", "/", "/">>,
     <<"a">>, <<" ">>, <<Backquote>>, <<"\"">>, <<"LDQUO">>, <<"MDASH">>}

RECURSIVE FragTextsUpTo(_)
FragTextsUpTo(k) ==
    IF k = 0 THEN {<<>>}
    ELSE FragTextsUpTo(k - 1) \cup {t \o f : t \in FragTextsUpTo(k - 1), f \in Frags}

FragTexts == FragTextsUpTo(MaxFrags)

\* the preprocessors the word-list texts meet: the default, the test fixture
\* and one with small minimums, in either language
WordPreprocessors ==
    {MakePreprocessor(m[1], m[2], TRUE, TRUE, TRUE, TRUE, lang) :
        m \in {<<200, 15>>, <<10, 15>>, <<3, 2>>}, lang \in {"en", "fr"}}

\* the preprocessors the fragment texts meet: a minimum of one token and
\* every combination of the four filters
FragPreprocessors ==
    {MakePreprocessor(1, 1, urls, code, quotes, unicode, "en") :
        urls \in BOOLEAN, code \in BOOLEAN, quotes \in BOOLEAN, unicode \in BOOLEAN}

-----------------------------------------------------------------------------
(* Specification SpecPre: TextPreprocessor.preprocess on any text *)

InitPre ==
    /\ \/ /\ text \in WordTexts
          /\ preprocessor \in WordPreprocessors
          /\ mode \in {"prose", "vocab"}
       \/ /\ text \in FragTexts
          /\ preprocessor \in FragPreprocessors
          /\ mode = "prose"
    /\ token_list = NoTokens
    /\ history = NoHistory
    /\ preprocessed = NoResult
    /\ extractors = NoExtractors
    /\ features = EmptyDict
    /\ result = NoResult
    /\ pc = "start"

\* TextPreprocessor.preprocess(text, mode)
Preprocess ==
    /\ pc = "start"
    /\ preprocessed' = preprocess(preprocessor, text, mode)
    /\ pc' = "done"
    /\ UNCHANGED <<preprocessor, mode, text, token_list, extractors, features, result, history>>

NextPre == Preprocess

SpecPre == InitPre /\ [][NextPre]_vars


-----------------------------------------------------------------------------
(* CWRFeatureExtractor (features/cwr.py) *)

\* n / d rounded to the nearest integer, for d > 0
RoundDiv(n, d) == (2 * n + d) \div (2 * d)

\* str.strip()
RECURSIVE LastNonSpace(_, _)
LastNonSpace(str, i) ==
    IF i >= 1 /\ str[i] \in Whitespace THEN LastNonSpace(str, i - 1) ELSE i
Strip(str) == SubSeq(str, FirstNonSpace(str, 1), LastNonSpace(str, Len(str)))

\* the lexicon _load_lexicon leaves: each line that is neither empty nor a
\* comment, in its lower, upper and capitalized form
_load_lexicon(lines) ==
    UNION {{Lower(Strip(lines[i])), Upper(Strip(lines[i])), Capitalize(Strip(lines[i]))} :
              i \in {k \in DOMAIN lines :
                        Strip(lines[k]) # <<>> /\ ~StartsWith(Strip(lines[k]), <<"#">>)}}

\* what [^\w\s] leaves in place
IsWordOrSpace(c) == c \in Letters \cup Digits \cup {"_"} \cup Whitespace

\* suffixes of _normalize_word, in the order they are tried
suffixes ==
    <<<<"i", "n", "g">>, <<"e", "d">>, <<"e", "r">>, <<"e", "s", "t">>,
      <<"l", "y">>, <<"s">>, <<"e", "s">>>>

\* the word without the first suffix of the list that it ends with
StripSuffix(word) ==
    LET hits == {i \in DOMAIN suffixes : EndsWith(word, suffixes[i])}
    IN  IF hits = {} THEN word
        ELSE LET first == CHOOSE i \in hits : \A j \in hits : i <= j
             IN  SubSeq(word, 1, Len(word) - Len(suffixes[first]))

\* CWRFeatureExtractor._normalize_word(word)
_normalize_word(self, word) ==
    LET bare == Lower(SelectSeq(word, IsWordOrSpace))
    IN  IF self.use_stemming /\ Len(bare) > 3 THEN StripSuffix(bare) ELSE bare

\* the test of compute_cwr on one normalized token
IsCollegiate(normalized, lexicon) ==
    \/ normalized \in lexicon
    \/ \E col_word \in lexicon :
           StartsWith(normalized, col_word) \/ StartsWith(col_word, normalized)

\* IqOfRatio clipped to [50, 150]
IqOfRatioClipped(self, count, total) ==
    LET z15 == IF self.background_std > 0
               THEN RoundDiv(15000 * (count * 1000 - self.background_mean * total),
                             self.background_std * total)
               ELSE 0
    IN  PyMax(50000, PyMin(150000, 100000 + z15))

\* iq_estimate = 100 + 15 * z_score with the z-score left exact
IqOfRatio(self, count, total) ==
    IF self.background_std > 0
    THEN 100000 + RoundDiv(15000 * (count * 1000 - self.background_mean * total),
                           self.background_std * total)
    ELSE 100000

\* CWRFeatureExtractor.compute_cwr(tokens); mean and std are in thousandths
compute_cwr(self, tokens) ==
    IF tokens = <<>>
    THEN [cwr |-> 0, z_score |-> 0, iq_estimate |-> 100000,
          num_collegiate_words |-> 0, total_words |-> 0]
    ELSE LET total_words == Len(tokens)
             Hit(token) == IsCollegiate(_normalize_word(self, token), self.lexicon)
             collegiate_words == SelectSeq(tokens, Hit)
             collegiate_count == Len(collegiate_words)
         IN  [cwr |-> RoundDiv(collegiate_count * 1000, total_words),
              z_score |->
                  IF self.background_std > 0
                  THEN RoundDiv(1000 * (collegiate_count * 1000
                                        - self.background_mean * total_words),
                                self.background_std * total_words)
                  ELSE 0,
              iq_estimate |-> IqOfRatio(self, collegiate_count, total_words),
              num_collegiate_words |-> collegiate_count,
              total_words |-> total_words,
              collegiate_words |->
                  SubSeq(collegiate_words, 1,
                         IF collegiate_count < 20 THEN collegiate_count ELSE 20)]

\* CWRFeatureExtractor.extract_features(text)
CwrExtractFeatures(self, str) ==
    [cwr_baseline |-> compute_cwr(self, Split(str)), feature_name |-> "cwr"]

\* LexiconOnError without the reset: the entries read so far stay
LexiconOnErrorKeepsPartial(lines, k) == _load_lexicon(SubSeq(lines, 1, k))

\* the lexicon after open() or the reading raised with k lines read: the
\* except branch of _load_lexicon empties it
LexiconOnError(lines, k) == {}

\* the lexicon of __init__: lexicon_file is Absent (None, or a path that does
\* not exist), <<lines>> for a file with these lines, or <<lines, k>> for a
\* file whose reading raises after k lines
LoadedLexicon(lexicon_file) ==
    IF lexicon_file = Absent THEN {}
    ELSE IF Len(lexicon_file) = 2 THEN LexiconOnError(lexicon_file[1], lexicon_file[2])
    ELSE _load_lexicon(lexicon_file[1])

\* CWRFeatureExtractor(lexicon_file, background_corpus_mean,
\* background_corpus_std, use_stemming); the lexicon_file argument is kept
\* beside the fields of the object
CWRFeatureExtractor(lexicon_file, mean, std, use_stemming) ==
    [lexicon |-> LoadedLexicon(lexicon_file),
     lexicon_file |-> lexicon_file,
     background_mean |-> mean,
     background_std |-> std,
     use_stemming |-> use_stemming,
     raises |-> FALSE]

-----------------------------------------------------------------------------
(* TextToIQUnderEstimator (pipeline.py) *)

\* Python's None, where a number may stand
None == -2000000001

\* extract_features(processed_text) of the extractor called name
ExtractFeatures(name, extractor, processed_text) ==
    IF name = "cwr" THEN CwrExtractFeatures(extractor, processed_text)
    ELSE extractor.returns

\* the body of the extractor loop: the try and its except
TryExtract(name, extractor, processed_text) ==
    IF extractor.raises THEN ErrorEntry
    ELSE ExtractFeatures(name, extractor, processed_text)

\* the extractor loop without its try: the first failure ends it, and the
\* entries of the extractors that raise are never written
AllFeaturesWithoutTry(feature_extractors, processed_text) ==
    [name \in {n \in DOMAIN feature_extractors \ {"vocab"} : ~feature_extractors[n].raises} |->
        ExtractFeatures(name, feature_extractors[name], processed_text)]

\* all_features after the loop, which skips the vocab scorer
AllFeatures(feature_extractors, processed_text) ==
    [name \in DOMAIN feature_extractors \ {"vocab"} |->
        TryExtract(name, feature_extractors[name], processed_text)]

\* cwr_baseline of estimate
CwrBaselineOf(all_features) ==
    IF Has(all_features, "cwr") /\ Has(all_features["cwr"], "cwr_baseline")
    THEN Get(all_features["cwr"]["cwr_baseline"], "iq_estimate", 100000)
    ELSE None

\* cwr_baseline with no default behind it
IqEstimateNoDefault(cwr_baseline) == cwr_baseline

\* iq_estimate = cwr_baseline if cwr_baseline else 100.0
IqEstimateOf(cwr_baseline) ==
    IF cwr_baseline # None /\ cwr_baseline # 0 THEN cwr_baseline ELSE 100000

\* TextToIQUnderEstimator.estimate(text), return_details at its default
EstimateResult(self_preprocessor, feature_extractors, md, str) ==
    LET pre == preprocess(self_preprocessor, str, md)
    IN  IF ~pre.is_valid
        THEN [iq_estimate |-> None, error |-> pre.reason, is_valid |-> FALSE]
        ELSE LET all_features == AllFeatures(feature_extractors, pre.processed_text)
                 cwr_baseline == CwrBaselineOf(all_features)
             IN  [iq_estimate |-> IqEstimateOf(cwr_baseline),
                  is_valid |-> TRUE,
                  cwr_baseline |-> cwr_baseline,
                  preprocessing |-> pre.metadata,
                  features |-> all_features]

-----------------------------------------------------------------------------
(* Specification SpecPipe: TextToIQUnderEstimator.estimate on any text *)

\* most tokens of a pipeline text
MaxPipeTokens == 3

\* the lexicon files: none, one whose only word is "the" next to a comment
\* and an empty line, and one that holds a prefix of every word of the texts
LexiconFiles ==
    {Absent,
     <<<< <<"t", "h", "e", "\n">>, <<"#", "a", "a", "a", "\n">>, <<"\n">> >>>>,
     <<<< <<"T", "h", "e", "\n">>, <<"a", "\n">>, <<"w", "o", "r", "d", "\n">> >>>>}

\* (background_corpus_mean, background_corpus_std): the defaults, a pair
\* that puts the estimate of a text without collegiate words at 0.0, and a
\* zero deviation
Backgrounds == {<<150, 50>>, <<500, 75>>, <<150, 0>>}

\* the CWR extractors, and one whose extract_features raises
CwrExtractors ==
    {CWRFeatureExtractor(f, b[1], b[2], FALSE) : f \in LexiconFiles, b \in Backgrounds}
    \cup {[CWRFeatureExtractor(Absent, 150, 50, FALSE) EXCEPT !.raises = TRUE]}

\* an extractor that is not modelled further: it raises or returns bundle
OtherExtractors(bundle) ==
    {[raises |-> TRUE, returns |-> bundle], [raises |-> FALSE, returns |-> bundle]}

\* a stylometry bundle with the three keys the combiner reads
StyloComputed ==
    [stylometry_features |->
         [ttr |-> 659, avg_words_per_sentence |-> 16000,
          avg_dependency_depth |-> 2500, yules_k |-> 0],
     feature_name |-> "stylometry"]

\* feature_extractors: each extractor is there unless its section of the
\* configuration disables it
FeatureExtractors ==
    {DictOf([cwr |-> c, stylometry |-> s, embeddings |-> e, vocab |-> v, aoa |-> a]) :
        c \in Opt(CwrExtractors),
        s \in Opt(OtherExtractors(StyloComputed)),
        e \in Opt(OtherExtractors([feature_name |-> "embeddings"])),
        v \in Opt({[raises |-> FALSE, returns |-> EmptyDict]}),
        a \in Opt(OtherExtractors(AoaNotLoaded))}

\* the texts of the pipeline: the empty one, the lists of MaxPipeTokens
\* tokens at most over three of the words, and the short test text
PipeTexts ==
    {WordText(c[1], c[2], 0, c[3]) :
        c \in {d \in (0..MaxPipeTokens) \X (0..MaxPipeTokens) \X (0..MaxPipeTokens) :
                  d[1] + d[2] + d[3] <= MaxPipeTokens}}
    \cup {TestShort}

\* _init_preprocessor with an empty configuration and with small minimums
SmallPreprocessor == MakePreprocessor(3, 1, TRUE, TRUE, TRUE, TRUE, "en")

\* the preprocessor and the mode of the pipeline
PipeModes ==
    {<<DefaultPreprocessor, "prose">>, <<SmallPreprocessor, "prose">>,
     <<SmallPreprocessor, "vocab">>}

InitPipe ==
    /\ text \in PipeTexts
    /\ \E pm \in PipeModes : preprocessor = pm[1] /\ mode = pm[2]
    /\ extractors \in FeatureExtractors
    /\ token_list = NoTokens
    /\ history = NoHistory
    /\ preprocessed = NoResult
    /\ features = EmptyDict
    /\ result = NoResult
    /\ pc = "start"

\* TextToIQUnderEstimator.estimate(text)
Estimate ==
    /\ pc = "start"
    /\ preprocessed' = preprocess(preprocessor, text, mode)
    /\ result' = EstimateResult(preprocessor, extractors, mode, text)
    /\ features' = IF result'.is_valid THEN result'.features ELSE features
    /\ pc' = "done"
    /\ UNCHANGED <<preprocessor, mode, text, token_list, extractors, history>>

NextPipe == Estimate

SpecPipe == InitPipe /\ [][NextPipe]_vars

-----------------------------------------------------------------------------
(* Specification SpecCwr: CWRFeatureExtractor.extract_features on any text *)

\* most tokens of a text of SpecCwr
MaxCwrTokens == 3

\* the tokens of the texts: a lexicon word, a suffix and a prefix of it, the
\* word capitalized with punctuation, a word with a suffix that stemming
\* cuts, and a token of punctuation only
WordHe == <<"h", "e">>
CwrWords ==
    {WordThe, WordHe, <<"t", "h">>, <<"T", "h", "e", ".">>,
     <<"w", "o", "r", "d", "s">>, <<"-", "-">>}

\* the lists of k tokens at most
RECURSIVE TokenListsUpTo(_, _)
TokenListsUpTo(words, k) ==
    IF k = 0 THEN {<<>>}
    ELSE LET shorter == TokenListsUpTo(words, k - 1)
         IN  shorter \cup {Append(l, w) : l \in shorter, w \in words}

\* 3 tokens of the lexicon among 20: a ratio of 0.15
RatioText == Join(Repeat(WordThe, 3) \o Repeat(WordHe, 17))

CwrTexts == {Join(l) : l \in TokenListsUpTo(CwrWords, MaxCwrTokens)} \cup {RatioText}

\* the lines of two lexicon files
LexiconThe == << <<"t", "h", "e", "\n">>, <<"#", "h", "e", "\n">>, <<"\n">> >>
LexiconWord == << <<" ", "W", "o", "r", "d", "\n">>, <<"t", "h", "e", "\n">> >>

\* no file, a file that cannot be opened, one whose reading fails after a
\* line, and two that load
CwrLexiconFiles ==
    {Absent, <<LexiconThe, 0>>, <<LexiconThe, 1>>, <<LexiconThe>>, <<LexiconWord>>}

\* Backgrounds and a negative deviation
CwrBackgrounds == Backgrounds \cup {<<150, -50>>}

InitCwr ==
    /\ text \in CwrTexts
    /\ \E f \in CwrLexiconFiles, b \in CwrBackgrounds, stem \in BOOLEAN :
           extractors = [cwr |-> CWRFeatureExtractor(f, b[1], b[2], stem)]
    /\ token_list = NoTokens
    /\ history = NoHistory
    /\ preprocessor = NoPreprocessor
    /\ mode = "prose"
    /\ preprocessed = NoResult
    /\ features = EmptyDict
    /\ result = NoResult
    /\ pc = "start"

\* CWRFeatureExtractor.extract_features(text): tokens = text.split(), then
\* compute_cwr(tokens)
CwrExtract ==
    /\ pc = "start"
    /\ token_list' = Split(text)
    /\ result' = CwrExtractFeatures(extractors["cwr"], text)
    /\ pc' = "done"
    /\ UNCHANGED <<preprocessor, mode, text, preprocessed, extractors, features, history>>

NextCwr == CwrExtract

SpecCwr == InitCwr /\ [][NextCwr]_vars

-----------------------------------------------------------------------------
(* AoAFeatureExtractor (features/aoa_features.py) *)

\* the values of column col in the rows whose WORD, lowered and stripped, is w
RECURSIVE ColumnOf(_, _, _, _)
ColumnOf(rows, i, w, col) ==
    IF i > Len(rows) THEN <<>>
    ELSE (IF Lower(Strip(rows[i].WORD)) = w /\ ~IsNaN(rows[i][col])
          THEN <<rows[i][col]>> ELSE <<>>)
         \o ColumnOf(rows, i + 1, w, col)

\* the dict _load_aoa_data builds from one column: word -> list of values
AoaDictOf(rows, col) ==
    LET words == {Lower(Strip(rows[i].WORD)) : i \in DOMAIN rows}
    IN  [w \in {x \in words : ColumnOf(rows, 1, x, col) # <<>>} |-> ColumnOf(rows, 1, w, col)]

\* AoAFeatureExtractor(aoa_file, use_stemming): aoa_file is Absent (None, or
\* a path that does not exist), <<rows>> for a table with these rows, or
\* <<rows, k>> for a table whose reading raises, which empties both dicts
AoAFeatureExtractor(aoa_file, use_stemming) ==
    [aoa_dict |->
         IF Len(aoa_file) = 1 THEN AoaDictOf(aoa_file[1], "AoAtestbased") ELSE EmptyDict,
     aoa_rating_dict |->
         IF Len(aoa_file) = 1 THEN AoaDictOf(aoa_file[1], "AoArating") ELSE EmptyDict,
     use_stemming |-> use_stemming]

\* AoAFeatureExtractor._normalize_word(word)
AoaNormalizeWord(self, word) ==
    LET bare == Lower(SelectSeq(word, IsWordOrSpace))
    IN  IF self.use_stemming /\ Len(bare) > 3 THEN StripSuffix(bare) ELSE bare

\* sum and np.mean of a non-empty list
RECURSIVE SumSeq(_, _)
SumSeq(values, i) == IF i > Len(values) THEN 0 ELSE values[i] + SumSeq(values, i + 1)
Mean(values) == RoundDiv(SumSeq(values, 1), Len(values))

\* np.std (population) of a non-empty list
Std(values) ==
    LET mean == Mean(values)
        squares == [i \in DOMAIN values |-> (values[i] - mean) * (values[i] - mean)]
    IN  SqrtBetween(SumSeq(squares, 1) \div Len(values), 0, DevCap)

\* the k-th smallest value of a list, and np.median
KthSmallest(values, k) ==
    CHOOSE v \in Range(values) :
        /\ Cardinality({i \in DOMAIN values : values[i] < v}) < k
        /\ Cardinality({i \in DOMAIN values : values[i] <= v}) >= k
Median(values) ==
    LET n == Len(values)
    IN  IF n % 2 = 1 THEN KthSmallest(values, (n + 1) \div 2)
        ELSE RoundDiv(KthSmallest(values, n \div 2) + KthSmallest(values, n \div 2 + 1), 2)

\* _lookup_aoa and _lookup_aoa_rating: <<mean>> of the entries, or Absent
LookupIn(self, dict, word) ==
    LET normalized == AoaNormalizeWord(self, word)
    IN  IF normalized \in DOMAIN dict THEN <<Mean(dict[normalized])>> ELSE Absent
_lookup_aoa(self, word) == LookupIn(self, self.aoa_dict, word)
_lookup_aoa_rating(self, word) == LookupIn(self, self.aoa_rating_dict, word)

\* the values the loop of extract_features collects from position i on
RECURSIVE CollectFrom(_, _, _, _)
CollectFrom(self, tokens, i, rating) ==
    IF i > Len(tokens) THEN <<>>
    ELSE (IF _lookup_aoa(self, tokens[i]) = Absent THEN <<>>
          ELSE IF rating THEN _lookup_aoa_rating(self, tokens[i])
          ELSE _lookup_aoa(self, tokens[i]))
         \o CollectFrom(self, tokens, i + 1, rating)

\* extract_features when no token is in the table
AoaNoMatchResult(total_words) ==
    [aoa_features |->
         [mean_aoa_test |-> NaN,
          std_aoa_test |-> NaN,
          median_aoa_test |-> NaN,
          max_aoa_test |-> NaN,
          min_aoa_test |-> NaN,
          pct_advanced_test |-> 0,
          match_rate |-> 0,
          num_matched |-> 0,
          total_words |-> total_words],
     feature_name |-> "aoa",
     num_matched |-> 0]

\* AoAFeatureExtractor.extract_features(text); ages, percentages and rates
\* in thousandths
AoaExtractFeatures(self, str) ==
    LET tokens == Split(str)
        aoa_values == CollectFrom(self, tokens, 1, FALSE)
        aoa_rating_values == CollectFrom(self, tokens, 1, TRUE)
        matched_words ==
            SelectSeq(tokens, LAMBDA token : _lookup_aoa(self, token) # Absent)
        n == Len(aoa_values)
        advanced == Cardinality({i \in DOMAIN aoa_values : aoa_values[i] > 10000})
        stats ==
            [mean_aoa_test |-> <<Mean(aoa_values)>>,
             std_aoa_test |-> <<Std(aoa_values)>>,
             median_aoa_test |-> <<Median(aoa_values)>>,
             max_aoa_test |-> <<KthSmallest(aoa_values, n)>>,
             min_aoa_test |-> <<KthSmallest(aoa_values, 1)>>,
             pct_advanced_test |-> <<RoundDiv(advanced * 100000, n)>>,
             match_rate |-> <<RoundDiv(n * 100000, Len(tokens))>>,
             num_matched |-> <<n>>,
             total_words |-> <<Len(tokens)>>,
             mean_aoa_rating |->
                 IF aoa_rating_values # <<>> THEN <<Mean(aoa_rating_values)>> ELSE Absent,
             std_aoa_rating |->
                 IF aoa_rating_values = <<>> THEN Absent
                 ELSE IF Len(aoa_rating_values) > 1 THEN <<Std(aoa_rating_values)>>
                 ELSE <<NaN>>]
    IN  IF DOMAIN self.aoa_dict = {} THEN AoaNotLoaded
        ELSE IF tokens = <<>>
        THEN [aoa_features |-> EmptyDict, error |-> "Empty text", feature_name |-> "aoa"]
        ELSE IF aoa_values = <<>> THEN AoaNoMatchResult(Len(tokens))
        ELSE [aoa_features |-> DictOf(stats),
              feature_name |-> "aoa",
              matched_words_sample |->
                  SubSeq(matched_words, 1, IF n < 10 THEN n ELSE 10)]

-----------------------------------------------------------------------------
(* Specification SpecAoa: AoAFeatureExtractor.extract_features on any text *)

\* most tokens of a text of SpecAoa
MaxAoaTokens == 3

\* the rows of a table: "the" twice, a word without a rating, one with only
\* a rating, and one with spaces and capitals
AoaRows ==
    << [WORD |-> <<"t", "h", "e">>, AoAtestbased |-> 4000, AoArating |-> 3500],
       [WORD |-> <<"t", "h", "e">>, AoAtestbased |-> 6000, AoArating |-> NaN],
       [WORD |-> <<"w", "o", "r", "d">>, AoAtestbased |-> 12000, AoArating |-> NaN],
       [WORD |-> <<"h", "e">>, AoAtestbased |-> NaN, AoArating |-> 5000],
       [WORD |-> <<" ", "C", "a", "t">>, AoAtestbased |-> 2000, AoArating |-> 2500] >>

\* a table with no test-based age at all
AoaRowsNoTest ==
    << [WORD |-> <<"t", "h", "e">>, AoAtestbased |-> NaN, AoArating |-> 3500] >>

AoaFiles == {Absent, <<AoaRows>>, <<AoaRows, 2>>, <<AoaRowsNoTest>>}

\* the tokens of the texts: in the table as they are, after normalization,
\* after stemming, only with a rating, or not at all
AoaWords ==
    {WordThe, <<"T", "h", "e", ".">>, <<"w", "o", "r", "d", "s">>,
     <<"c", "a", "t">>, WordHe, <<"z", "z">>}

AoaTexts == {Join(l) : l \in TokenListsUpTo(AoaWords, MaxAoaTokens)}

InitAoa ==
    /\ text \in AoaTexts
    /\ \E f \in AoaFiles, stem \in BOOLEAN :
           extractors = [aoa |-> AoAFeatureExtractor(f, stem)]
    /\ token_list = NoTokens
    /\ history = NoHistory
    /\ preprocessor = NoPreprocessor
    /\ mode = "prose"
    /\ preprocessed = NoResult
    /\ features = EmptyDict
    /\ result = NoResult
    /\ pc = "start"

\* AoAFeatureExtractor.extract_features(text)
AoaExtract ==
    /\ pc = "start"
    /\ token_list' = Split(text)
    /\ result' = AoaExtractFeatures(extractors["aoa"], text)
    /\ pc' = "done"
    /\ UNCHANGED <<preprocessor, mode, text, preprocessed, extractors, features, history>>

NextAoa == AoaExtract

SpecAoa == InitAoa /\ [][NextAoa]_vars

-----------------------------------------------------------------------------
(* StylometryFeatureExtractor: lexical diversity
   (methodologies/stylometry/stylometry.py) *)

\* _compute_ttr with the tokens lowercased before they are counted
ComputeTtrLowercased(tokens) ==
    IF tokens = <<>> THEN 0
    ELSE RoundDiv(Cardinality({Lower(t) : t \in Range(tokens)}) * 1000, Len(tokens))

\* StylometryFeatureExtractor._compute_ttr(tokens), in thousandths
_compute_ttr(tokens) ==
    IF tokens = <<>> THEN 0
    ELSE LET unique_tokens == Cardinality(Range(tokens))
         IN  RoundDiv(unique_tokens * 1000, Len(tokens))

\* the loop of _compute_mtld from token i on: the list factor_lengths it
\* ends with, the remaining factor included when remainder is set
RECURSIVE FactorLengthsFrom(_, _, _, _, _)
FactorLengthsFrom(tokens, i, current_factor, current_types, remainder) ==
    IF i > Len(tokens)
    THEN IF remainder /\ current_factor # <<>> THEN <<Len(current_factor)>> ELSE <<>>
    ELSE LET factor == Append(current_factor, tokens[i])
             types == current_types \cup {Lower(tokens[i])}
         IN  \* ttr < threshold, for ttr = len(types) / len(factor) and 0.72
             IF Cardinality(types) * 100 < 72 * Len(factor)
             THEN <<Len(factor)>> \o FactorLengthsFrom(tokens, i + 1, <<>>, {}, remainder)
             ELSE FactorLengthsFrom(tokens, i + 1, factor, types, remainder)

\* statistics.mean(factor_lengths) if factor_lengths else 0.0, in thousandths
MeanFactorLength(factor_lengths) ==
    IF factor_lengths = <<>> THEN 0
    ELSE RoundDiv(SumSeq(factor_lengths, 1) * 1000, Len(factor_lengths))

\* the loop of _compute_mtld with the types compared as written, case included
RECURSIVE FactorLengthsCaseSensitive(_, _, _, _)
FactorLengthsCaseSensitive(tokens, i, current_factor, current_types) ==
    IF i > Len(tokens)
    THEN IF current_factor # <<>> THEN <<Len(current_factor)>> ELSE <<>>
    ELSE LET factor == Append(current_factor, tokens[i])
             types == current_types \cup {tokens[i]}
         IN  IF Cardinality(types) * 100 < 72 * Len(factor)
             THEN <<Len(factor)>> \o FactorLengthsCaseSensitive(tokens, i + 1, <<>>, {})
             ELSE FactorLengthsCaseSensitive(tokens, i + 1, factor, types)

\* _compute_mtld over case-sensitive types
ComputeMtldCaseSensitive(tokens) ==
    IF tokens = <<>> THEN 0
    ELSE MeanFactorLength(FactorLengthsCaseSensitive(tokens, 1, <<>>, {}))

\* _compute_mtld without the remaining factor
ComputeMtldNoRemainder(tokens) ==
    IF tokens = <<>> THEN 0
    ELSE MeanFactorLength(FactorLengthsFrom(tokens, 1, <<>>, {}, FALSE))

\* StylometryFeatureExtractor._compute_mtld(tokens), in thousandths
_compute_mtld(tokens) ==
    IF tokens = <<>> THEN 0
    ELSE MeanFactorLength(FactorLengthsFrom(tokens, 1, <<>>, {}, TRUE))

-----------------------------------------------------------------------------
(* Specification SpecStylo: _compute_ttr and _compute_mtld on any token list *)

\* most tokens of a list of SpecStylo
MaxStyloTokens == 5

\* two words that differ only by case, and a third
StyloWords == {WordThe, <<"T", "h", "e">>, WordHe}

InitStylo ==
    /\ token_list \in TokenListsUpTo(StyloWords, MaxStyloTokens)
    /\ history = NoHistory
    /\ text = NoText
    /\ extractors = NoExtractors
    /\ preprocessor = NoPreprocessor
    /\ mode = "prose"
    /\ preprocessed = NoResult
    /\ features = EmptyDict
    /\ result = NoResult
    /\ pc = "start"

\* StylometryFeatureExtractor._compute_ttr(tokens)
ComputeTtr ==
    /\ pc = "start"
    /\ result' = [ttr |-> _compute_ttr(token_list)]
    /\ pc' = "done"
    /\ UNCHANGED <<preprocessor, mode, text, token_list, preprocessed, extractors, features, history>>

\* StylometryFeatureExtractor._compute_mtld(tokens)
ComputeMtld ==
    /\ pc = "start"
    /\ result' = [mtld |-> _compute_mtld(token_list)]
    /\ pc' = "done"
    /\ UNCHANGED <<preprocessor, mode, text, token_list, preprocessed, extractors, features, history>>

NextStylo == ComputeTtr \/ ComputeMtld

SpecStylo == InitStylo /\ [][NextStylo]_vars

-----------------------------------------------------------------------------
(* StylometryFeatureExtractor: dependency depth
   (methodologies/stylometry/stylometry.py) *)

\* a sentence of a parse is a sequence of tokens [head, dep_]: head is the
\* position in the sentence of the governor, dep_ the relation to it

\* the while loop of _compute_dependency_depth from ancestor on, depth edges
\* having been walked
RECURSIVE WalkToRoot(_, _, _)
WalkToRoot(sent, ancestor, depth) ==
    IF sent[ancestor].dep_ = "ROOT" THEN depth
    ELSE WalkToRoot(sent, sent[ancestor].head, depth + 1)

\* sent_depths: the depth of each token of the sentence that is not the root
SentDepths(sent) ==
    LET others == SelectSeq([i \in DOMAIN sent |-> i], LAMBDA i : sent[i].dep_ # "ROOT")
    IN  [k \in DOMAIN others |-> WalkToRoot(sent, others[k], 0)]

\* statistics.mean of a non-empty list of depths, in thousandths
MeanOfDepths(sent_depths) == RoundDiv(SumSeq(sent_depths, 1) * 1000, Len(sent_depths))

\* depths: the mean depth of each sentence that has a token besides its root
RECURSIVE DepthsFrom(_, _)
DepthsFrom(sents, i) ==
    IF i > Len(sents) THEN <<>>
    ELSE (IF SentDepths(sents[i]) # <<>> THEN <<MeanOfDepths(SentDepths(sents[i]))>> ELSE <<>>)
         \o DepthsFrom(sents, i + 1)

\* StylometryFeatureExtractor._compute_dependency_depth(text); nlp is Absent
\* without the syntactic model and <<sents>> with it, sents being the
\* sentences of the parse nlp returns for the text
_compute_dependency_depth(nlp) ==
    IF nlp = Absent THEN EmptyDict
    ELSE LET depths == DepthsFrom(nlp[1], 1)
         IN  IF depths # <<>>
             THEN [avg_dependency_depth |-> Mean(depths),
                   max_dependency_depth |-> KthSmallest(depths, Len(depths))]
             ELSE [avg_dependency_depth |-> 0, max_dependency_depth |-> 0]

-----------------------------------------------------------------------------
(* Specification SpecDep: _compute_dependency_depth on any parse *)

\* most tokens of a sentence and most sentences of a parse
MaxSentenceTokens == 3
MaxSentences == 2

\* the governor links of the well-formed trees over n tokens: one token is
\* its own head, every other token reaches it
TreesOf(n) ==
    {h \in [1..n -> 1..n] :
        /\ Cardinality({i \in 1..n : h[i] = i}) = 1
        /\ \A i \in 1..n :
               \E path \in UNION {[0..k -> 1..n] : k \in 0..(n - 1)} :
                   /\ path[0] = i
                   /\ \A j \in DOMAIN path \ {0} : path[j] = h[path[j - 1]]
                   /\ \A j \in DOMAIN path \ {0} : path[j] # path[j - 1]
                   /\ h[path[Cardinality(DOMAIN path) - 1]] = path[Cardinality(DOMAIN path) - 1]}

\* the sentences of n tokens
SentencesOf(n) ==
    {[i \in 1..n |-> [head |-> h[i], dep_ |-> IF h[i] = i THEN "ROOT" ELSE "dep"]] :
        h \in TreesOf(n)}

\* the sentences of n tokens at most
SentencesUpTo(n) == UNION {SentencesOf(k) : k \in 1..n}

\* the parses: no syntactic model, or at most k sentences of at most n tokens
ParsesUpTo(n, k) ==
    {Absent} \cup {<<sents>> : sents \in TokenListsUpTo(SentencesUpTo(n), k)}

InitDep ==
    /\ \E nlp \in ParsesUpTo(MaxSentenceTokens, MaxSentences) : extractors = [stylometry |-> [nlp |-> nlp]]
    /\ text = NoText
    /\ token_list = NoTokens
    /\ history = NoHistory
    /\ preprocessor = NoPreprocessor
    /\ mode = "prose"
    /\ preprocessed = NoResult
    /\ features = EmptyDict
    /\ result = NoResult
    /\ pc = "start"

\* StylometryFeatureExtractor._compute_dependency_depth(text)
ComputeDependencyDepth ==
    /\ pc = "start"
    /\ result' = _compute_dependency_depth(extractors["stylometry"].nlp)
    /\ pc' = "done"
    /\ UNCHANGED <<preprocessor, mode, text, token_list, preprocessed, extractors, features, history>>

NextDep == ComputeDependencyDepth

SpecDep == InitDep /\ [][NextDep]_vars

-----------------------------------------------------------------------------
(* RuleBasedEnsemble (estimators/rule_based_ensemble.py) *)

\* weights are kept in units of 1/WeightUnit; the arguments of the
\* constructor are given in thousandths
WeightUnit == 10000

\* RuleBasedEnsemble(weight_cwr, weight_stylometry, weight_embeddings,
\* weight_aoa): the weights are divided by their total when it is positive
RuleBasedEnsemble(weight_cwr, weight_stylometry, weight_embeddings, weight_aoa) ==
    LET total == weight_cwr + weight_stylometry + weight_embeddings + weight_aoa
        Normalized(w) ==
            IF total > 0 THEN RoundDiv(w * WeightUnit, total) ELSE w * (WeightUnit \div 1000)
    IN  [weight_cwr |-> Normalized(weight_cwr),
         weight_stylometry |-> Normalized(weight_stylometry),
         weight_embeddings |-> Normalized(weight_embeddings),
         weight_aoa |-> Normalized(weight_aoa)]

\* RuleBasedEnsemble._extract_cwr_iq(features)
_extract_cwr_iq(f) ==
    IF Has(f, "cwr") /\ Has(f["cwr"], "cwr_baseline")
    THEN Get(f["cwr"]["cwr_baseline"], "iq_estimate", 100000)
    ELSE 100000

\* if ttr > 0
TtrCountsPositive(ttr) == FGt(ttr, 0)

\* if avg_words > 0: if 12 <= avg_words <= 20
InBonusRange(avg_words) ==
    FGt(avg_words, 0) /\ 12000 <= avg_words /\ avg_words <= 20000

\* RuleBasedEnsemble._estimate_iq_from_stylometry(features)
_estimate_iq_from_stylometry(f) ==
    IF ~Has(f, "stylometry") THEN None
    ELSE LET stylo == Get(f["stylometry"], "stylometry_features", EmptyDict)
             ttr == Get(stylo, "ttr", 500)
             avg_words == Get(stylo, "avg_words_per_sentence", 10000)
             ttr_adjustment ==
                 IF TtrCountsPositive(ttr) THEN FScale(FSub(ttr, 500), 60, 1) ELSE 0
             length_adjustment ==
                 IF InBonusRange(avg_words) THEN FScale(FSub(avg_words, 10000), 2, 1) ELSE 0
             base_iq == FAdd(100000, FAdd(ttr_adjustment, length_adjustment))
         IN  IF ~Truthy(stylo) THEN None
             ELSE PyMax(70000, PyMin(150000, base_iq))

\* max(70, min(150, 100 + (mean_aoa - 8) * 7 + pct_advanced * 0.5))
AoaEstimate(mean_aoa, pct_advanced) ==
    PyMax(70000, PyMin(150000,
        FAdd(FAdd(100000, FScale(FSub(mean_aoa, 8000), 7, 1)),
             FScale(pct_advanced, 5, 10))))

\* RuleBasedEnsemble._estimate_iq_from_aoa(features)
_estimate_iq_from_aoa(f) ==
    IF ~Has(f, "aoa") THEN None
    ELSE LET aoa_features == Get(f["aoa"], "aoa_features", EmptyDict)
         IN  IF ~Truthy(aoa_features) THEN None
             ELSE AoaEstimate(Get(aoa_features, "mean_aoa_test", 8000),
                              Get(aoa_features, "pct_advanced_test", 0))

\* RuleBasedEnsemble._estimate_iq_from_embeddings(features)
_estimate_iq_from_embeddings(f) == None

\* the dict built from (key, value) pairs, the pairs whose value is None
\* left out
WithoutNone(pairs) ==
    [k \in {p[1] : p \in {q \in pairs : q[2] # None}} |->
        (CHOOSE p \in pairs : p[1] = k)[2]]

\* sum of d[k] * w[k] over the keys of d
RECURSIVE SumProducts(_, _, _)
SumProducts(keys, d, w) ==
    IF keys = {} THEN 0
    ELSE LET k == CHOOSE x \in keys : TRUE
         IN  d[k] * w[k] + SumProducts(keys \ {k}, d, w)

\* weights = {k: v / total_weight ...} if total_weight > 0
Renormalized(w) ==
    LET total_weight == SumProducts(DOMAIN w, w, [k \in DOMAIN w |-> 1])
    IN  IF total_weight > 0
        THEN [k \in DOMAIN w |-> RoundDiv(w[k] * WeightUnit, total_weight)]
        ELSE w

\* a deviation of AgreeCap or more among at most four estimates puts their
\* standard deviation above 25, where the confidence is 50
AgreeCap == 44000

\* max(50, 100 - np.std(estimates) * 2), or 70 for a single estimate
CombineConfidence(estimates) ==
    LET keys == DOMAIN estimates
        n == Cardinality(keys)
        mean == RoundDiv(SumProducts(keys, estimates, [k \in keys |-> 1]), n)
        dev == [k \in keys |-> estimates[k] - mean]
        variance == SumProducts(keys, [k \in keys |-> (dev[k] * dev[k]) \div n],
                                [k \in keys |-> 1])
    IN  IF n <= 1 THEN 70000
        ELSE IF \E k \in keys : Abs(dev[k]) >= AgreeCap THEN 50000
        ELSE PyMax(50000, 100000 - SqrtBetween(variance, 0, AgreeCap) * 2)

\* RuleBasedEnsemble.combine(features)
combine(self, f) ==
    LET estimates ==
            WithoutNone({<<"cwr", _extract_cwr_iq(f)>>,
                         <<"stylometry", _estimate_iq_from_stylometry(f)>>,
                         <<"aoa", _estimate_iq_from_aoa(f)>>,
                         <<"embeddings", _estimate_iq_from_embeddings(f)>>})
        self_weights ==
            [cwr |-> self.weight_cwr, stylometry |-> self.weight_stylometry,
             aoa |-> self.weight_aoa, embeddings |-> self.weight_embeddings]
        weights_used == Renormalized([k \in DOMAIN estimates |-> self_weights[k]])
    IN  [combined_iq |->
             (SumProducts(DOMAIN estimates, estimates, weights_used) + WeightUnit \div 2)
                 \div WeightUnit,
         confidence |-> CombineConfidence(estimates),
         estimates_by_method |-> estimates,
         weights_used |-> weights_used,
         num_methods |-> Cardinality(DOMAIN estimates)]

-----------------------------------------------------------------------------
(* Specification SpecCombine: RuleBasedEnsemble.combine and
   KnowledgeBasedIQEstimator.estimate on any feature input *)

\* the arguments of RuleBasedEnsemble, in thousandths: the defaults, equal
\* weights, no weight on CWR, weight on one method only, and no weight
BaseWeights ==
    {<<400, 300, 200, 100>>, <<1000, 1000, 1000, 1000>>, <<0, 300, 200, 100>>,
     <<0, 0, 0, 1000>>, <<0, 0, 0, 0>>}

CombineCwrBundles ==
    {ErrorEntry, [cwr_baseline |-> EmptyDict, feature_name |-> "cwr"]}
    \cup {[cwr_baseline |-> [iq_estimate |-> v], feature_name |-> "cwr"] :
             v \in {55000, 100000, 140000, 150000}}

\* ttr and avg_words_per_sentence of a stylometry bundle: the ends of the
\* ranges and both sides of the bounds of the bonus
CombineTtrValues == {0, 300, 500, 1000}
CombineAvgWordsValues == {0, 11999, 12000, 16000, 20000, 20001, 30000}

CombineStyloBundles ==
    {ErrorEntry, [stylometry_features |-> EmptyDict, feature_name |-> "stylometry"]}
    \cup {[stylometry_features |-> [ttr |-> t, avg_words_per_sentence |-> w],
           feature_name |-> "stylometry"] :
             t \in CombineTtrValues, w \in CombineAvgWordsValues}

\* AoAFeatureExtractor.extract_features on an empty text
AoaEmptyText ==
    [aoa_features |-> EmptyDict, error |-> "Empty text", feature_name |-> "aoa"]

CombineAoaBundles ==
    {ErrorEntry, AoaNotLoaded, AoaEmptyText, AoaNoMatchResult(1)}
    \cup {[aoa_features |->
              [mean_aoa_test |-> v[1], pct_advanced_test |-> v[2], num_matched |-> 1],
           feature_name |-> "aoa"] : v \in AoaValues}

CombineInputs ==
    {DictOf([cwr |-> c, aoa |-> a, stylometry |-> s, embeddings |-> e]) :
        c \in Opt(CombineCwrBundles), a \in Opt(CombineAoaBundles),
        s \in Opt(CombineStyloBundles), e \in Opt({[feature_name |-> "embeddings"]})}

InitCombine ==
    /\ features \in CombineInputs
    /\ \E w \in BaseWeights :
           extractors = [ensemble |-> RuleBasedEnsemble(w[1], w[2], w[3], w[4]),
                         base |-> w]
    /\ text = NoText
    /\ token_list = NoTokens
    /\ history = NoHistory
    /\ preprocessor = NoPreprocessor
    /\ mode = "prose"
    /\ preprocessed = NoResult
    /\ result = NoResult
    /\ pc = "start"

\* RuleBasedEnsemble.combine(features)
Combine ==
    /\ pc = "start"
    /\ result' = combine(extractors["ensemble"], features)
    /\ pc' = "done"
    /\ UNCHANGED <<preprocessor, mode, text, token_list, preprocessed, extractors, features, history>>

NextCombine == Combine \/ KBEstimate

SpecCombine == InitCombine /\ [][NextCombine]_vars

-----------------------------------------------------------------------------
(* Specification SpecCalls: calls in any order on components built once *)

\* most calls of a behaviour
MaxCalls == 3

\* the component after a call: preprocess, compute_cwr / extract_features and
\* combine assign no attribute of self and change no container it holds

\* a CWR extractor that adds the words of the text to its lexicon
CwrAfterCallLearning(self, str) ==
    [self EXCEPT !.lexicon = @ \cup {_normalize_word(self, w) : w \in Range(Split(str))}]

CwrAfterCall(self, str) == self
PreprocessorAfterCall(self, str) == self
AoaAfterCall(self, str) == self
EnsembleAfterCall(self, f) == self

\* the texts and the feature inputs of the calls
CallTexts == {Join(<<WordThe, WordHe, WordThe>>), Join(<<WordWords, WordHe, WordHe, WordHe>>)}
CallInputs ==
    {DictOf([cwr |-> <<[cwr_baseline |-> [iq_estimate |-> 150000], feature_name |-> "cwr"]>>,
             aoa |-> Absent]),
     DictOf([cwr |-> Absent, aoa |-> <<AoaNoMatchResult(1)>>])}

\* the components: with and without their reference data
CallComponents ==
    {[cwr |-> CWRFeatureExtractor(lf, 150, 50, FALSE),
      aoa |-> AoAFeatureExtractor(af, FALSE),
      ensemble |-> RuleBasedEnsemble(400, 300, 200, 100)] :
        lf \in {Absent, <<LexiconThe>>}, af \in {Absent, <<AoaRows>>}}

InitCalls ==
    /\ preprocessor = SmallPreprocessor
    /\ mode = "prose"
    /\ extractors \in CallComponents
    /\ text = NoText
    /\ token_list = NoTokens
    /\ history = NoHistory
    /\ preprocessed = NoResult
    /\ features = EmptyDict
    /\ result = NoResult
    /\ pc = "start"

\* the call of op on argument returned value: it is the result and the last
\* entry of the history
Returned(op, argument, value) ==
    /\ Len(history) < MaxCalls
    /\ result' = value
    /\ history' = Append(history, [op |-> op, argument |-> argument, returned |-> value])
    /\ pc' = "done"

\* TextPreprocessor.preprocess(text, mode)
CallPreprocess ==
    \E t \in CallTexts :
        /\ Returned("preprocess", t, preprocess(preprocessor, t, mode))
        /\ text' = t
        /\ preprocessed' = preprocess(preprocessor, t, mode)
        /\ preprocessor' = PreprocessorAfterCall(preprocessor, t)
        /\ UNCHANGED <<mode, token_list, extractors, features>>

\* CWRFeatureExtractor.extract_features(text)
CallCwr ==
    \E t \in CallTexts :
        /\ Returned("cwr", t, CwrExtractFeatures(extractors["cwr"], t))
        /\ text' = t
        /\ extractors' = [extractors EXCEPT !["cwr"] = CwrAfterCall(@, t)]
        /\ UNCHANGED <<preprocessor, mode, token_list, preprocessed, features>>

\* AoAFeatureExtractor.extract_features(text)
CallAoa ==
    \E t \in CallTexts :
        /\ Returned("aoa", t, AoaExtractFeatures(extractors["aoa"], t))
        /\ text' = t
        /\ extractors' = [extractors EXCEPT !["aoa"] = AoaAfterCall(@, t)]
        /\ UNCHANGED <<preprocessor, mode, token_list, preprocessed, features>>

\* KnowledgeBasedIQEstimator.estimate(features)
CallEstimate ==
    \E f \in CallInputs :
        /\ Returned("estimate", f, KBEstimateResult(f))
        /\ features' = f
        /\ UNCHANGED <<preprocessor, mode, text, token_list, preprocessed, extractors>>

\* RuleBasedEnsemble.combine(features)
CallCombine ==
    \E f \in CallInputs :
        /\ Returned("combine", f, combine(extractors["ensemble"], f))
        /\ features' = f
        /\ extractors' = [extractors EXCEPT !["ensemble"] = EnsembleAfterCall(@, f)]
        /\ UNCHANGED <<preprocessor, mode, text, token_list, preprocessed>>

NextCalls == CallPreprocess \/ CallCwr \/ CallAoa \/ CallEstimate \/ CallCombine

SpecCalls == InitCalls /\ [][NextCalls]_vars

-----------------------------------------------------------------------------
(* Claims about KnowledgeBasedIQEstimator.estimate, under SpecKB *)

\* estimate has returned
KBDone == pc = "done" /\ Has(result, "dimension_scores")

\* C1: for every feature input (bundles absent, empty, error-only or
\* computed, AoA statistics NaN included) the iq_estimate that estimate
\* returns lies in [50, 150].
C1_IqEstimateInRange ==
    KBDone => result.iq_estimate \in 50000..150000

\* C1 witness: the AoA mean is NaN, so the weighted average is NaN, and the
\* estimate that comes back is the upper clip.
C1_Witness ==
    /\ KBDone
    /\ Has(features, "aoa") /\ features["aoa"] = AoaNoMatch
    /\ IsNaN(result.dimension_scores.vocabulary_sophistication)
    /\ result.iq_estimate = 150000

\* C2: lexical_diversity, sentence_complexity and grammatical_precision each
\* lie in [50, 130] for every feature input, computed or defaulted.
C2_StylometryDimensionsInRange ==
    KBDone =>
        \A d \in {"lexical_diversity", "sentence_complexity", "grammatical_precision"} :
            result.dimension_scores[d] \in 50000..130000

\* C2 witness: a populated stylometry bundle whose TTR of 0 maps below 50 and
\* whose defaulted dependency depth maps above 130; both come back clipped.
C2_Witness ==
    /\ KBDone
    /\ Has(features, "stylometry")
    /\ Has(StyloOf(features), "ttr") /\ StyloOf(features)["ttr"] = 0
    /\ ~Has(StyloOf(features), "avg_dependency_depth")
    /\ result.dimension_scores.lexical_diversity = 50000
    /\ result.dimension_scores.grammatical_precision = 130000

\* C3: the confidence lies in [30, 95]; it is 0.7 x agreement + 0.3 x
\* availability cut to that interval, with agreement = max(50, 100 - 5 x the
\* population standard deviation of the four dimension scores) and
\* availability = 50 + 11 x the number of non-empty bundles among cwr,
\* stylometry, aoa and embeddings.
C3_ConfidenceInRange ==
    KBDone =>
        LET n == Cardinality({b \in {"cwr", "stylometry", "aoa", "embeddings"} :
                                 b \in DOMAIN features /\ DOMAIN features[b] # {}})
            availability == 50000 + 11000 * n
            agreement == AgreementScore(result.dimension_scores)
            raw == (7 * agreement + 3 * availability) \div 10
        IN  /\ result.confidence \in 30000..95000
            /\ agreement \in 50000..100000
            /\ result.confidence = IF raw > 95000 THEN 95000 ELSE raw

\* C3 witness: four non-empty bundles and four equal dimension scores, so
\* 0.7 x 100 + 0.3 x 94 = 98.2 is cut to 95.
C3_Witness ==
    /\ KBDone
    /\ result.num_features_used = 4
    /\ AgreementScore(result.dimension_scores) = 100000
    /\ result.confidence = 95000


-----------------------------------------------------------------------------
(* Claims about TextToIQUnderEstimator.estimate, under SpecPipe *)

\* estimate has returned
PipeDone == pc = "done" /\ Has(result, "is_valid")

\* C4 as claimed: for every text the preprocessor accepts, the iq_estimate
\* that TextToIQUnderEstimator.estimate returns lies in [50, 150], for every
\* lexicon and every background mean and deviation.
C4_PipelineEstimateInRange ==
    (PipeDone /\ result.is_valid) => result.iq_estimate \in 50000..150000

\* C5: estimate returns for every text; iq_estimate is None exactly when
\* preprocess rejects the text, and then is_valid is False and error is the
\* non-empty reason of preprocess; when preprocess accepts, is_valid is True
\* and iq_estimate is a number, whatever the extractors did.
C5_NoneExactlyWhenRejected ==
    pc = "done" =>
        /\ PipeDone
        /\ Has(preprocessed, "is_valid")
        /\ (result.iq_estimate = None) <=> ~preprocessed.is_valid
        /\ ~preprocessed.is_valid =>
               /\ result.is_valid = FALSE
               /\ result.error = preprocessed.reason
               /\ preprocessed.reason # <<>>
        /\ preprocessed.is_valid =>
               /\ result.is_valid = TRUE
               /\ ~IsNaN(result.iq_estimate)

\* C5 witness: an accepted text where the CWR extractor is disabled and each
\* extractor that is there raised: the estimate is the default 100.
C5_Witness ==
    /\ PipeDone
    /\ preprocessed.is_valid
    /\ ~Has(extractors, "cwr")
    /\ {"stylometry", "embeddings", "aoa"} \subseteq DOMAIN extractors
    /\ \A name \in DOMAIN extractors \ {"vocab"} : extractors[name].raises
    /\ \A name \in DOMAIN features : features[name] = ErrorEntry
    /\ result.is_valid = TRUE
    /\ result.iq_estimate = 100000

-----------------------------------------------------------------------------
(* Claims about TextPreprocessor.preprocess, under SpecPre *)

\* preprocess has returned
PreDone == pc = "done" /\ Has(preprocessed, "is_valid")

\* the minimum the call compares the token count with
MinLengthOfCall ==
    IF mode = "vocab" THEN preprocessor.min_length_vocab ELSE preprocessor.min_length_tokens

\* the tokens of the processed text, whether or not it was then accepted
TokensOfCall == Split(Filtered(preprocessor, text))

\* the tokens of length > 2 with at most 2 distinct characters, case ignored
RepetitiveIn(tokens) ==
    {i \in DOMAIN tokens :
        /\ Len(tokens[i]) > 2
        /\ Cardinality({LowerChar(tokens[i][k]) : k \in DOMAIN tokens[i]}) <= 2}

\* more than 30% of the tokens are repetitive
OverThirtyPercent(tokens) ==
    /\ Len(tokens) > 0
    /\ 10 * Cardinality(RepetitiveIn(tokens)) > 3 * Len(tokens)

\* the reason reads "Text too short: ..." / "High repetition detected: ..."
SaysTooShort(reason) == Len(reason) > 0 /\ reason[1] = "Text too short: "
SaysHighRepetition(reason) == Len(reason) > 0 /\ reason[1] = "High repetition detected: "

\* C6 as claimed: every non-empty text whose processed token count is below
\* the minimum of its mode is rejected with a reason that contains "too
\* short", whatever its other properties.
C6_ShortAlwaysSaysTooShort ==
    (PreDone /\ text # <<>>) =>
        LET tokens == TokensOfCall
        IN  Len(tokens) < MinLengthOfCall =>
                (~preprocessed.is_valid /\ SaysTooShort(preprocessed.reason))

\* C6 as amended: such a text is always rejected; the reason contains "too
\* short" unless more than 30% of its tokens are repetitive, and then the
\* reason is the high-repetition one, which the later check writes over it.
C6_ShortRejected ==
    (PreDone /\ text # <<>>) =>
        LET tokens == TokensOfCall
        IN  Len(tokens) < MinLengthOfCall =>
                /\ ~preprocessed.is_valid
                /\ preprocessed.processed_text = <<>>
                /\ IF OverThirtyPercent(tokens)
                   THEN SaysHighRepetition(preprocessed.reason)
                   ELSE SaysTooShort(preprocessed.reason)

\* C6 witness: the scenario of the specification, a 5-token text against
\* min_length_tokens = 200.
C6_Witness ==
    /\ PreDone
    /\ mode = "prose" /\ preprocessor.min_length_tokens = 200
    /\ ~preprocessed.is_valid /\ SaysTooShort(preprocessed.reason)
    /\ LET tokens == TokensOfCall
       IN  Len(tokens) = 5 /\ ~OverThirtyPercent(tokens)

Untouched(str) == Filtered(DefaultPreprocessor, str) = str

\* C8 as claimed (test_basic_preprocessing): with
\* TextPreprocessor(min_length_tokens=10) and mode "prose", a plain text of 8
\* tokens with no URL, code span, quote or repetitive token is accepted, with
\* metadata.num_tokens > 0.
C8_EightPlainTokensAccepted ==
    (/\ PreDone
     /\ preprocessor = TestPreprocessor /\ mode = "prose"
     /\ Untouched(text)
     /\ Len(Split(text)) = 8
     /\ RepeatCount(Split(text)) = 0) =>
        (preprocessed.is_valid /\ preprocessed.metadata.num_tokens > 0)

\* "http://" or "https://" followed by a URL character stands at i
UrlAt(str, i) ==
    \/ /\ StartsWithAt(str, i, <<"h", "t", "t", "p", ":", "/", "/">>)
       /\ i + 7 <= Len(str) /\ IsUrlChar(str[i + 7])
    \/ /\ StartsWithAt(str, i, <<"h", "t", "t", "p", "s", ":", "/", "/">>)
       /\ i + 8 <= Len(str) /\ IsUrlChar(str[i + 8])

\* C9: with strip_urls on, the processed text holds no "http://" or
\* "https://" followed by a URL character: the URLs are cut after the
\* Unicode normalization and no later filter puts one back.
C9_NoUrlInProcessedText ==
    (PreDone /\ preprocessor.strip_urls) =>
        \A i \in 1..Len(preprocessed.processed_text) : ~UrlAt(preprocessed.processed_text, i)

\* C9 witness: http://"a, where the scheme is followed by a quote: no URL to
\* cut, the quote filter then puts a space, and http:// a is accepted.
C9_Witness ==
    /\ PreDone
    /\ preprocessor.strip_urls /\ preprocessor.strip_quotes
    /\ text = <<"h", "t", "t", "p", ":", "/", "/", "\"", "a">>
    /\ preprocessed.is_valid
    /\ preprocessed.processed_text = <<"h", "t", "t", "p", ":", "/", "/", " ", "a">>

\* the keys of the diagnostic metadata
DiagnosticKeys ==
    {"original_length", "processed_length", "num_tokens",
     "language_detected", "language_match"}

\* C10 as claimed: every rejected input, the empty one included, comes back
\* with processed_text = '' and still with the original text and the
\* diagnostic metadata.
C10_RejectedKeepsDiagnostics ==
    (PreDone /\ ~preprocessed.is_valid) =>
        /\ preprocessed.processed_text = <<>>
        /\ Has(preprocessed, "original_text")
        /\ DiagnosticKeys \subseteq DOMAIN preprocessed.metadata

-----------------------------------------------------------------------------
(* Claims about CWRFeatureExtractor, under SpecCwr *)

\* extract_features has returned
CwrDone == pc = "done" /\ Has(result, "cwr_baseline")

\* v is n / d rounded to the nearest integer
IsRounded(v, n, d) == d > 0 /\ 2 * Abs(v * d - n) <= d

\* z_score and iq_estimate of b follow the formulas for the ratio count / total
FollowsFormulas(b, self, count, total) ==
    IF self.background_std > 0
    THEN /\ IsRounded(b.z_score,
                      1000 * (count * 1000 - self.background_mean * total),
                      self.background_std * total)
         /\ IsRounded(b.iq_estimate - 100000,
                      15000 * (count * 1000 - self.background_mean * total),
                      self.background_std * total)
    ELSE b.z_score = 0 /\ b.iq_estimate = 100000

\* C11 as claimed: for every token list, the empty one included, z_score is
\* (cwr - background_mean) / background_std when background_std > 0 and 0
\* otherwise, and iq_estimate is 100 + 15 * z_score, not clipped.
C11_FormulasOnEveryList ==
    CwrDone =>
        LET b == result.cwr_baseline
        IN  IF b.total_words = 0
            THEN b.cwr = 0 /\ FollowsFormulas(b, extractors["cwr"], 0, 1)
            ELSE FollowsFormulas(b, extractors["cwr"], b.num_collegiate_words, b.total_words)

\* C11 as amended: the formulas hold for every non-empty token list; for the
\* empty list compute_cwr returns cwr 0, z_score 0 and iq_estimate 100
\* whatever the background mean and deviation are.
C11_FormulasOnNonEmptyLists ==
    CwrDone =>
        LET b == result.cwr_baseline
        IN  /\ b.total_words = Len(token_list)
            /\ IF token_list = <<>>
               THEN b.cwr = 0 /\ b.z_score = 0 /\ b.iq_estimate = 100000
               ELSE FollowsFormulas(b, extractors["cwr"],
                                    b.num_collegiate_words, b.total_words)

\* C11 witness: mean 0.15, deviation 0.05 and 3 collegiate tokens among 20,
\* a ratio of 0.15: z_score 0 and iq_estimate 100.0.
C11_Witness ==
    /\ CwrDone
    /\ extractors["cwr"].background_mean = 150
    /\ extractors["cwr"].background_std = 50
    /\ result.cwr_baseline.total_words = 20
    /\ result.cwr_baseline.num_collegiate_words = 3
    /\ result.cwr_baseline.cwr = 150
    /\ result.cwr_baseline.z_score = 0
    /\ result.cwr_baseline.iq_estimate = 100000

\* the matching rule as claimed: equal to an entry, or a prefix or a suffix
\* of one, or with one as its prefix or its suffix
ClaimedMatch(normalized, lexicon) ==
    \E col_word \in lexicon :
        \/ normalized = col_word
        \/ StartsWith(normalized, col_word) \/ StartsWith(col_word, normalized)
        \/ EndsWith(normalized, col_word) \/ EndsWith(col_word, normalized)

\* C12 as claimed: num_collegiate_words counts exactly the tokens whose
\* normalized form equals a lexicon entry or is in a prefix or suffix
\* relation with one, in either direction; 0 <= num_collegiate_words <=
\* total_words and cwr lies in [0, 1].
C12_PrefixOrSuffixMatch ==
    CwrDone =>
        LET b == result.cwr_baseline
            self == extractors["cwr"]
            matched == {i \in DOMAIN token_list :
                           ClaimedMatch(_normalize_word(self, token_list[i]), self.lexicon)}
        IN  /\ b.num_collegiate_words = Cardinality(matched)
            /\ b.num_collegiate_words \in 0..b.total_words
            /\ b.cwr \in 0..1000

\* C13: with the lexicon file absent or unreadable the extractor has an
\* empty lexicon, and extract_features returns, for every text, a
\* cwr_baseline whose cwr is 0 and whose matched count is 0.
C13_NoLexiconGivesZeroRatio ==
    (pc = "done" /\ Has(extractors, "cwr") /\ Has(extractors["cwr"], "lexicon_file")
     /\ Len(extractors["cwr"].lexicon_file) # 1) =>
        /\ extractors["cwr"].lexicon = {}
        /\ Has(result, "cwr_baseline")
        /\ Has(result.cwr_baseline, "cwr")
        /\ result.cwr_baseline.cwr = 0
        /\ result.cwr_baseline.num_collegiate_words = 0

\* C13 witness: the file holds "the" but its reading fails after that line,
\* and the text holds "the": nothing is matched.
C13_Witness ==
    /\ CwrDone
    /\ extractors["cwr"].lexicon_file = <<LexiconThe, 1>>
    /\ \E i \in DOMAIN token_list : token_list[i] = WordThe
    /\ result.cwr_baseline.cwr = 0
    /\ result.cwr_baseline.num_collegiate_words = 0
    /\ result.cwr_baseline.total_words = Len(token_list)

-----------------------------------------------------------------------------
(* Claims about the dimensions of KnowledgeBasedIQEstimator, under SpecKB *)

\* the stylometry key that feeds each of the three stylometry dimensions
SignalKey ==
    [lexical_diversity |-> "ttr",
     sentence_complexity |-> "avg_words_per_sentence",
     grammatical_precision |-> "avg_dependency_depth"]

\* the stylometry bundle, its feature dict or the key is not there
SignalAbsent(f, key) ==
    \/ ~Has(f, "stylometry")
    \/ ~Has(f["stylometry"], "stylometry_features")
    \/ ~Has(f["stylometry"]["stylometry_features"], key)

\* C17 as claimed: a stylometry dimension whose signal is absent (bundle
\* missing or empty, or only its key omitted from a populated bundle) scores
\* exactly 100; no substitute value is scored in its place.
C17_AbsentSignalScores100 ==
    KBDone =>
        \A dim \in DOMAIN SignalKey :
            SignalAbsent(features, SignalKey[dim]) => result.dimension_scores[dim] = 100000

\* the lexicon-ratio signal and the acquisition-age signal are there
CwrSignalPresent(f) ==
    /\ Has(f, "cwr") /\ Has(f["cwr"], "cwr_baseline")
    /\ Has(f["cwr"]["cwr_baseline"], "iq_estimate")
AoaSignalPresent(f) ==
    /\ Has(f, "aoa") /\ Has(f["aoa"], "aoa_features")
    /\ Has(f["aoa"]["aoa_features"], "mean_aoa_test")

\* vocabulary_sophistication as claimed
ClaimedVocabulary(f) ==
    LET raw == f["cwr"]["cwr_baseline"]["iq_estimate"]
        dampened ==
            IF FGt(raw, 140000) THEN FAdd(100000, FScale(FSub(raw, 100000), 4, 10)) ELSE raw
        aoa == f["aoa"]["aoa_features"]
        aoaScore ==
            FAdd(FAdd(70000, FScale(FSub(aoa["mean_aoa_test"], 3910), 24, 1)),
                 Get(aoa, "pct_advanced_test", 0))
    IN  IF CwrSignalPresent(f) /\ AoaSignalPresent(f)
        THEN FAdd(FScale(dampened, 5, 10), FScale(aoaScore, 5, 10))
        ELSE IF CwrSignalPresent(f) THEN raw
        ELSE IF AoaSignalPresent(f) THEN aoaScore
        ELSE 100000

\* C18 as claimed: vocabulary_sophistication is the equal-weight average of
\* the acquisition-age score and the lexicon-ratio estimate (dampened above
\* 140) when both signals are present, the one signal unmodified when only
\* one is present, and 100 when neither is.
C18_VocabularyAsClaimed ==
    KBDone => result.dimension_scores.vocabulary_sophistication = ClaimedVocabulary(features)

\* the weighted sum of four scores with the weights 0.35, 0.25, 0.20, 0.20
WeightedSum(d) ==
    FAdd(FAdd(FAdd(FScale(d.vocabulary_sophistication, 35, 1),
                   FScale(d.lexical_diversity, 25, 1)),
              FScale(d.sentence_complexity, 20, 1)),
         FScale(d.grammatical_precision, 20, 1))

\* C19: the four weights sum to 1, every call gives all four dimensions a
\* value, and iq_estimate is the weighted sum of the four dimension scores
\* clipped to [50, 150] (the upper bound when the sum is not a number).
C19_WeightedSumClipped ==
    KBDone =>
        LET d == result.dimension_scores
            sum == FScale(WeightedSum(d), 1, 35 + 25 + 20 + 20)
        IN  /\ 35 + 25 + 20 + 20 = 100
            /\ DOMAIN d = {"vocabulary_sophistication", "lexical_diversity",
                           "sentence_complexity", "grammatical_precision"}
            /\ result.iq_estimate =
                   (IF IsNaN(sum) THEN 150000
                    ELSE IF sum < 50000 THEN 50000
                    ELSE IF sum > 150000 THEN 150000
                    ELSE sum)

\* C19 witness: four computed dimensions, no two equal, and an estimate
\* strictly inside the clip.
C19_Witness ==
    /\ KBDone
    /\ Cardinality({result.dimension_scores[k] : k \in DOMAIN result.dimension_scores}) = 4
    /\ \A k \in DOMAIN result.dimension_scores : result.dimension_scores[k] # 100000
    /\ result.iq_estimate > 50000 /\ result.iq_estimate < 150000

-----------------------------------------------------------------------------
(* Claims about AoAFeatureExtractor, under SpecAoa *)

\* extract_features has returned
AoaDone == pc = "done" /\ Has(result, "aoa_features")

\* a statistic that is reported as unavailable: not there, or not a number
Unavailable(d, key) == ~Has(d, key) \/ IsNaN(d[key])

\* C14 as claimed: with the table loaded and a non-empty text of which no
\* token is in the table, mean, std, median and percent-advanced are all
\* reported as unavailable, not as zero, with match_rate 0, num_matched 0
\* and total_words the number of tokens.
C14_NoMatchAllUnavailable ==
    (/\ AoaDone
     /\ DOMAIN extractors["aoa"].aoa_dict # {}
     /\ token_list # <<>>
     /\ \A i \in DOMAIN token_list :
            ~(AoaNormalizeWord(extractors["aoa"], token_list[i])
                  \in DOMAIN extractors["aoa"].aoa_dict)) =>
        LET d == result.aoa_features
        IN  /\ Unavailable(d, "mean_aoa_test")
            /\ Unavailable(d, "std_aoa_test")
            /\ Unavailable(d, "median_aoa_test")
            /\ Unavailable(d, "pct_advanced_test")
            /\ Has(d, "match_rate") /\ d.match_rate = 0
            /\ Has(d, "num_matched") /\ d.num_matched = 0
            /\ Has(d, "total_words") /\ d.total_words = Len(token_list)

-----------------------------------------------------------------------------
(* Claims about the lexical diversity measures, under SpecStylo *)

\* _compute_ttr, or _compute_mtld, has returned
TtrDone == pc = "done" /\ Has(result, "ttr")
MtldDone == pc = "done" /\ Has(result, "mtld")

\* all tokens of the list are pairwise distinct
PairwiseDistinct(tokens) ==
    \A i, j \in DOMAIN tokens : i # j => tokens[i] # tokens[j]

\* C15 as claimed: for every token list, the empty list included,
\* 0 <= TTR <= 1, and TTR = 1 if and only if all tokens are pairwise distinct.
C15_TtrOneIffDistinct ==
    TtrDone =>
        /\ 0 <= result.ttr /\ result.ttr <= 1000
        /\ (result.ttr = 1000) <=> PairwiseDistinct(token_list)

\* C15, amended: for every token list 0 <= TTR <= 1; for a non-empty list
\* TTR = 1 if and only if all its tokens are pairwise distinct (as strings,
\* case included); for the empty list TTR = 0.
C15_TtrOneIffDistinctNonEmpty ==
    TtrDone =>
        /\ 0 <= result.ttr /\ result.ttr <= 1000
        /\ token_list # <<>> => ((result.ttr = 1000) <=> PairwiseDistinct(token_list))
        /\ token_list = <<>> => result.ttr = 0

\* a list of distinct tokens, two of which differ only by case, has TTR 1
C15_Witness ==
    /\ TtrDone
    /\ Len(token_list) = 3
    /\ PairwiseDistinct(token_list)
    /\ result.ttr = 1000

\* C16: for every non-empty token list MTLD >= 1, and no list of length N
\* has a smaller MTLD than the list that repeats a single word N times.
C16_MtldAtLeastRepeatedWord ==
    (MtldDone /\ token_list # <<>>) =>
        /\ result.mtld >= 1000
        /\ \A word \in StyloWords :
               result.mtld >= _compute_mtld(Repeat(word, Len(token_list)))

\* a word repeated five times: factors of 2, 2 and 1 tokens, MTLD 5/3
C16_Witness ==
    /\ MtldDone
    /\ Len(token_list) = 5
    /\ \A i \in DOMAIN token_list : token_list[i] = WordThe
    /\ result.mtld = 1667

\* C27: the factors of _compute_mtld partition the list: their lengths sum
\* to N, every factor closed by the threshold test has at least 2 tokens, at
\* most one factor has 1 token, and the result is N / (number of factors),
\* between 1 and N.
C27_FactorsPartitionTheList ==
    (MtldDone /\ token_list # <<>>) =>
        LET N == Len(token_list)
            closed == FactorLengthsFrom(token_list, 1, <<>>, {}, FALSE)
            factor_lengths == FactorLengthsFrom(token_list, 1, <<>>, {}, TRUE)
        IN  /\ SumSeq(factor_lengths, 1) = N
            /\ \A i \in DOMAIN closed : closed[i] >= 2
            /\ Len(factor_lengths) - Len(closed) \in {0, 1}
            /\ Cardinality({i \in DOMAIN factor_lengths : factor_lengths[i] = 1}) <= 1
            /\ result.mtld = RoundDiv(N * 1000, Len(factor_lengths))
            /\ 1000 <= result.mtld /\ result.mtld <= N * 1000

\* the, The, the: one closed factor of 2 tokens (the types are lowercased)
\* and a trailing factor of 1, MTLD 3/2
C27_Witness ==
    /\ MtldDone
    /\ token_list = <<WordThe, <<"T", "h", "e">>, WordThe>>
    /\ FactorLengthsFrom(token_list, 1, <<>>, {}, TRUE) = <<2, 1>>
    /\ result.mtld = 1500

-----------------------------------------------------------------------------
(* Claims about KnowledgeBasedIQEstimator as a function of its input,
   under SpecKB *)

\* the features of the call with the CWR iq_estimate replaced by r
WithCwrEstimate(f, r) ==
    [f EXCEPT !["cwr"]["cwr_baseline"]["iq_estimate"] = r]

\* going from result a to result b lowers neither vocabulary_sophistication
\* nor iq_estimate
NothingLowered(a, b) ==
    /\ ~FLt(b.dimension_scores.vocabulary_sophistication,
            a.dimension_scores.vocabulary_sophistication)
    /\ ~FLt(b.iq_estimate, a.iq_estimate)

\* C29 as claimed: with all other features fixed, raising the CWR
\* iq_estimate from r1 to any r2 > r1 never lowers vocabulary_sophistication
\* or the final iq_estimate.
C29_VocabularyNonDecreasingInCwr ==
    (KBDone /\ CwrSignalPresent(features)) =>
        LET r1 == features["cwr"]["cwr_baseline"]["iq_estimate"]
        IN  \A r2 \in CwrIqValues :
                r2 > r1 => NothingLowered(result, KBEstimateResult(WithCwrEstimate(features, r2)))

\* C29, amended: raising the CWR iq_estimate from r1 to r2 > r1 never lowers
\* vocabulary_sophistication or iq_estimate when r1 and r2 lie on the same
\* side of the dampening threshold (both <= 140, or both > 140).
C29_NonDecreasingOnEachSide ==
    (KBDone /\ CwrSignalPresent(features)) =>
        LET r1 == features["cwr"]["cwr_baseline"]["iq_estimate"]
        IN  \A r2 \in CwrIqValues :
                (r2 > r1 /\ ((r1 <= 140000) <=> (r2 <= 140000))) =>
                    NothingLowered(result, KBEstimateResult(WithCwrEstimate(features, r2)))

\* 150 and 355, both above the threshold, alone in the input: 120 and 202
C29_Witness ==
    /\ KBDone
    /\ CwrSignalPresent(features)
    /\ DOMAIN features = {"cwr"}
    /\ features["cwr"]["cwr_baseline"]["iq_estimate"] = 150000
    /\ result.dimension_scores.vocabulary_sophistication = 120000
    /\ KBEstimateResult(WithCwrEstimate(features, 355000))
           .dimension_scores.vocabulary_sophistication = 202000

\* names of bundles that are not feature sets of the estimator
OtherBundleNames == {"readability", "ensemble"}

\* C30: num_features_used, and the availability term of the confidence,
\* count the bundles among cwr, stylometry, aoa and embeddings that are
\* present and non-empty; the count lies in 0..4; a bundle holding only an
\* error entry counts like one with computed features; a bundle under
\* another name is never counted.
C30_CountsPresentNonEmptyBundles ==
    KBDone =>
        LET n == result.num_features_used
            counted == {fs \in {"cwr", "stylometry", "aoa", "embeddings"} :
                           fs \in DOMAIN features /\ DOMAIN features[fs] # {}}
        IN  /\ n = Cardinality(counted)
            /\ n \in 0..4
            /\ result.confidence =
                   ClipConfidence(
                       FAdd(FScale(AgreementScore(result.dimension_scores), 7, 10),
                            FScale(50000 + n * 11000, 3, 10)))
            /\ \A fs \in DOMAIN features :
                   Has(features[fs], "error") =>
                       /\ fs \in counted
                       /\ _count_available_features(
                              [features EXCEPT ![fs] = [feature_name |-> fs]]) = n
            /\ \A name \in OtherBundleNames :
                   _count_available_features(
                       [k \in DOMAIN features \cup {name} |->
                           IF k = name THEN ErrorEntry ELSE features[k]]) = n

\* four bundles, two of them only an error entry: all four are counted
C30_Witness ==
    /\ KBDone
    /\ DOMAIN features = {"cwr", "stylometry", "aoa", "embeddings"}
    /\ features["cwr"] = ErrorEntry
    /\ features["aoa"] = AoaNotLoaded
    /\ result.num_features_used = 4

-----------------------------------------------------------------------------
(* Claims about the extractor loop and the estimate of
   TextToIQUnderEstimator.estimate, under SpecPipe *)

\* the extractors the loop calls
Invoked == DOMAIN extractors \ {"vocab"}

\* C24: on accepted input, whatever subset of the extractors raises, the
\* call completes with is_valid = True; features has one entry per enabled
\* extractor other than the vocabulary scorer; a failing extractor's entry
\* is exactly {'error': message} and any other entry is exactly what the
\* extractor returned.
C24_FailuresAreIsolated ==
    (PipeDone /\ preprocessed.is_valid) =>
        /\ result.is_valid
        /\ DOMAIN result.features = Invoked
        /\ \A name \in Invoked :
               IF extractors[name].raises
               THEN result.features[name] = [error |-> "extraction failed"]
               ELSE result.features[name] =
                        ExtractFeatures(name, extractors[name], preprocessed.processed_text)

\* stylometry and aoa raise, cwr and embeddings return
C24_Witness ==
    /\ PipeDone
    /\ preprocessed.is_valid
    /\ Invoked = {"cwr", "stylometry", "embeddings", "aoa"}
    /\ extractors["stylometry"].raises /\ extractors["aoa"].raises
    /\ ~extractors["cwr"].raises /\ ~extractors["embeddings"].raises
    /\ result.features["stylometry"] = ErrorEntry
    /\ Has(result.features["cwr"], "cwr_baseline")
    /\ result.features["embeddings"] = [feature_name |-> "embeddings"]

\* the CWR extractor is disabled or failed
CwrDisabledOrFailed == ~Has(extractors, "cwr") \/ extractors["cwr"].raises

\* C28 as claimed: on accepted input iq_estimate is the iq_estimate of the
\* CWR extractor whenever the cwr bundle holds a cwr_baseline, whatever its
\* value; the default 100.0 stands in only when the CWR extractor is
\* disabled or failed, and the cwr_baseline field is None exactly then.
C28_EstimateIsCwrEstimate ==
    (PipeDone /\ result.is_valid) =>
        LET held == Has(features, "cwr") /\ Has(features["cwr"], "cwr_baseline")
        IN  /\ held <=> ~CwrDisabledOrFailed
            /\ (result.cwr_baseline = None) <=> CwrDisabledOrFailed
            /\ held => result.iq_estimate = features["cwr"]["cwr_baseline"]["iq_estimate"]
            /\ ~held => result.iq_estimate = 100000

-----------------------------------------------------------------------------
(* Claims about _compute_dependency_depth, under SpecDep *)

\* _compute_dependency_depth has returned with the syntactic model there
DepDone == pc = "done" /\ extractors["stylometry"].nlp # Absent

\* the number of edges between token i and the root of its sentence
EdgesToRoot(sent, i) ==
    CHOOSE d \in 0..Len(sent) :
        \E path \in [0..d -> DOMAIN sent] :
            /\ path[0] = i
            /\ sent[path[d]].dep_ = "ROOT"
            /\ \A j \in 1..d : path[j] = sent[path[j - 1]].head /\ sent[path[j - 1]].dep_ # "ROOT"

\* C26 as claimed: the depth of every non-root token is its edge count to
\* the root, avg_dependency_depth is the mean over the sentences of the mean
\* depth of the sentence, and max_dependency_depth is the largest depth of
\* any non-root token of any sentence.
C26_AvgAndMaxDepth ==
    DepDone =>
        LET sents == extractors["stylometry"].nlp[1]
            deep == {i \in DOMAIN sents : Len(sents[i]) > 1}
            all_depths == UNION {{EdgesToRoot(sents[i], k) :
                                     k \in {t \in DOMAIN sents[i] : sents[i][t].dep_ # "ROOT"}} :
                                 i \in deep}
        IN  /\ \A i \in deep :
                   LET others == SelectSeq([k \in DOMAIN sents[i] |-> k],
                                           LAMBDA k : sents[i][k].dep_ # "ROOT")
                   IN  \A k \in DOMAIN others :
                           SentDepths(sents[i])[k] = EdgesToRoot(sents[i], others[k])
            /\ deep # {} =>
                   /\ result.avg_dependency_depth = Mean(DepthsFrom(sents, 1))
                   /\ \A d \in all_depths : result.max_dependency_depth >= d * 1000
                   /\ \E d \in all_depths : result.max_dependency_depth = d * 1000

-----------------------------------------------------------------------------
(* Claims about RuleBasedEnsemble.combine and the acquisition-age signal,
   under SpecCombine *)

\* combine has returned
CombineDone == pc = "done" /\ Has(result, "combined_iq")

\* the sum of d over its keys
Total(d) == SumProducts(DOMAIN d, d, [k \in DOMAIN d |-> 1])

\* the base weights of the ensemble, by method
BaseWeightOf ==
    [cwr |-> extractors["base"][1], stylometry |-> extractors["base"][2],
     embeddings |-> extractors["base"][3], aoa |-> extractors["base"][4]]

\* C21 as claimed: for base weights with a positive sum, weights_used has
\* the keys of estimates_by_method, 'embeddings' is not among them, the
\* weights_used sum to 1, each is the base weight of its method divided by
\* the sum of the base weights of the present methods, and combined_iq is
\* the weights_used-weighted average of the estimates.
C21_WeightsRenormalizedOverPresent ==
    (CombineDone /\ Total(BaseWeightOf) > 0) =>
        LET estimates == result.estimates_by_method
            weights_used == result.weights_used
            present == [k \in DOMAIN estimates |-> BaseWeightOf[k]]
        IN  /\ DOMAIN weights_used = DOMAIN estimates
            /\ ~("embeddings" \in DOMAIN estimates)
            /\ Abs(Total(weights_used) - WeightUnit) <= 2
            /\ Total(present) > 0
            /\ \A k \in DOMAIN weights_used :
                   Abs(weights_used[k] * Total(present) - present[k] * WeightUnit)
                       <= 2 * Total(present)
            /\ Abs(result.combined_iq * WeightUnit
                       - SumProducts(DOMAIN estimates, estimates, weights_used))
                   <= WeightUnit

\* the stylometry estimate as claimed
ClaimedStylometry(ttr, avg_words) ==
    LET bonus == IF 12000 <= avg_words /\ avg_words <= 20000
                 THEN (avg_words - 10000) * 2 ELSE 0
        base_iq == 100000 + (ttr - 500) * 60 + bonus
    IN  IF base_iq < 70000 THEN 70000 ELSE IF base_iq > 150000 THEN 150000 ELSE base_iq

\* C22 as claimed: for a stylometry bundle with TTR in [0,1] and
\* avg_words_per_sentence >= 0 the stylometry estimate is
\* 100 + (TTR - 0.5) * 60 + bonus clipped to [70,150], the bonus being
\* (avg_words - 10) * 2 for 12 <= avg_words <= 20 and 0 otherwise.
C22_StylometryEstimateFormula ==
    (/\ CombineDone
     /\ Has(features, "stylometry")
     /\ Has(features["stylometry"], "stylometry_features")
     /\ Has(features["stylometry"]["stylometry_features"], "ttr")
     /\ Has(features["stylometry"]["stylometry_features"], "avg_words_per_sentence")) =>
        LET stylo == features["stylometry"]["stylometry_features"]
        IN  (stylo.ttr \in 0..1000 /\ stylo.avg_words_per_sentence >= 0) =>
                /\ Has(result.estimates_by_method, "stylometry")
                /\ result.estimates_by_method["stylometry"] =
                       ClaimedStylometry(stylo.ttr, stylo.avg_words_per_sentence)

\* the acquisition-age result is unavailable: no table, an empty text, or
\* no matched token
AoaUnavailable(f) ==
    /\ Has(f, "aoa")
    /\ f["aoa"] \in {AoaNotLoaded, AoaEmptyText, AoaNoMatchResult(1)}

\* the feature input without its aoa bundle
WithoutAoa(f) == [k \in DOMAIN f \ {"aoa"} |-> f[k]]

\* C23 as claimed: when the acquisition-age result is unavailable,
\* vocabulary_sophistication of the knowledge-based estimator is what it
\* is with the aoa bundle absent, and combine leaves 'aoa' out of
\* estimates_by_method and weights_used.
C23_UnavailableAoaIsNotScored ==
    AoaUnavailable(features) =>
        /\ KBDone =>
               result.dimension_scores.vocabulary_sophistication
                   = _vocabulary_iq(WithoutAoa(features))
        /\ CombineDone =>
               /\ ~("aoa" \in DOMAIN result.estimates_by_method)
               /\ ~("aoa" \in DOMAIN result.weights_used)

-----------------------------------------------------------------------------
(* Claims about repeated calls, under SpecCalls *)

\* two calls of the same operation on the same argument returned the same
Repeatable(calls) ==
    \A i, j \in DOMAIN calls :
        (calls[i].op = calls[j].op /\ calls[i].argument = calls[j].argument) =>
            calls[i].returned = calls[j].returned

====
